---- MODULE Spec2Model ----
(***************************************************************************)
(* A model of the ATS backend relay: the record-store adapter              *)
(* (createRecords / updateMultipleRecords / getRecord / updateRecord /     *)
(* getNextAttachmentId), the board transform (transformData) and the       *)
(* attachment routes of index.js (upload = append, replace).               *)
(*                                                                         *)
(* The repository holds two copies of the record-store adapter: the one    *)
(* index.js drives (src/unnamed/part_000, with initializeAirtableService   *)
(* and the paging loops) and src/airtableService.js, which sends a bulk    *)
(* write in one call.  Both are modelled; svcModule says which one a bulk  *)
(* write runs through.                                                     *)
(***************************************************************************)
EXTENDS Integers, Sequences, FiniteSets, TLC

VARIABLES
    \* ---- bulk write (createRecords / updateMultipleRecords) ----
    svcModule,      \* "part_000" | "airtableService.js": the adapter copy in use
    bulkOp,         \* "none" | "create" | "update"
    bulkPc,         \* "idle" | "loop" | "single" | "returned" | "thrown"
    tableName,      \* the logical table name the caller passed
    recordsIn,      \* the caller's list (recordsToCreate / recordsToUpdate)
    processedRecords, \* the list the loop pages over
    loopI,          \* the loop variable i (0-based offset of the next page)
    allRecords,     \* allCreatedRecords / allUpdatedRecords
    bulkReturn,     \* the value returned to the caller (<<>> until returned)
    apiCalls,       \* every external bulk-write call issued, in order
    committed,      \* the records the store has written, in commit order
    nextRecId,      \* the store's id generator
    inFlight,       \* the page calls sent and not yet settled: the i each was cut at
    \* ---- board transform ----
    apiResponse,    \* the input of transformData: a list of records
    boardPc,        \* "input" | "done"
    board,          \* the returned { groups, ungrouped }
    \* ---- attachment routes ----
    recFields,      \* the target record's fields in the store
    recFields0,     \* the fields the record had before any request
    bucketObjects,  \* names of the objects written to the bucket
    clock,          \* Date.now()
    reqPc,          \* per request: position in the handler
    reqMode,        \* per request: "append" (upload) | "replace"
    reqFile,        \* per request: the uploaded file's originalname, or NoFile
    reqBlob,        \* per request: the blob name chosen
    reqExisting,    \* per request: existingAttachments read by the upload route
    reqSeen,        \* per request: how many writes the field had taken when it was read
    reqStatus,      \* per request: HTTP status answered (0: none yet)
    reqBody,        \* per request: the JSON body answered
    writeLog,       \* the requests whose updateRecord succeeded, in order
    \* ---- counter ----
    counterFields,  \* the counter record's fields in the store
    counterFields0, \* the counter record's fields before any call
    callPc,         \* per getNextAttachmentId call: position
    callCurrent,    \* per call: currentId
    callSeen,       \* per call: how many write-backs the counter had taken when read
    callReturn,     \* per call: the returned nextId (0: none)
    counterLog,     \* the calls whose write-back succeeded, in order
    \* ---- single-record calls (getRecord / updateRecord) ----
    singlePc,       \* "idle" | "calling" | "returned" | "thrown"
    singleOp,       \* "none" | "get" | "update"
    singleTableName, \* the tableName argument
    singleRecordId, \* the recordId argument
    singleTable,    \* const table: the table id the external call is sent to
    singleId,       \* const id: the record id the external call targets
    singleReturn,   \* the id of the record returned ("" until returned)
    singlePrev,     \* the tableName and table of the call before this one
    singleError,    \* the error the store rejected the call with, "" when none
    \* ---- content held as an attachment (save / info-page patch / get / hybrid) ----
    ctBucket,       \* the bucket: object name -> the text it holds
    ctFields,       \* the record store: <<table, recordId, fieldName>> -> field value
    ctWritten,      \* every object write that landed: [name, triple]
    ctLast,         \* per triple saved for: the text written last
    ctCount,        \* the number of object writes that landed
    ctStarted,      \* the number of requests that have arrived
    ctPc,           \* per request: its position in its handler
    ctRoute,        \* per request: "none" | "save" | "patch" | "get" | "hybrid" | "upload" | "replace"
    ctTriple,       \* per request: its <<tableName, recordId, fieldName>>
    ctContent,      \* per request: its content (save, patch)
    ctFile,         \* per request: the uploaded file's originalname and its blob name
    ctPayload,      \* per request: the fields it hands to updateRecord
    ctRead,         \* per request: record.fields[fieldName] as it read it
    ctFetched,      \* per request: the URLs it has dereferenced
    ctResponse,     \* per request: the response of its fetch
    ctStatus,       \* per request: HTTP status answered (0: none yet)
    ctBody,         \* per request: the body answered
    \* ---- the record routes, the image upload, the recaptcha check, the intro form ----
    httpPc,         \* "idle" | "calling" | "assessing" | "done" | "rejected"
    httpRoute,      \* the route of the request
    httpMissing,    \* the fields of the request that are missing or empty
    httpPlan,       \* the external calls the handler has yet to make, in order
    httpOk,         \* the status the handler answers once its calls are made
    httpCalls,      \* the external calls issued for the request, in order
    httpFailed,     \* an external call of the request raised an error
    httpWrites,     \* external writes the request has committed
    httpExpected,   \* recaptchaAction of the request
    httpAssessment, \* the assessment obtained, or NoAssessment
    httpStatus,     \* HTTP status answered (0: none)
    httpBody,       \* "none" | "json"
    \* ---- real-time event handlers (io.on('connection', ...)) ----
    skProcess,      \* "running" | "terminated"
    skConnected,    \* the connections that are open
    skRooms,        \* connection -> the rooms it has joined
    skHandler,      \* handler -> the event it handles, its connection, its position
    skFailure,      \* the last failure event emitted, and the connections it went to
    skBroadcast,    \* the last event emitted to a room
    skCreated,      \* the message record the store created last
    \* ---- secret cache (src/secrets.js) ----
    secrets,        \* the cache: secret name -> payload, or Absent
    secLatest,      \* the secret store: secret name -> payload of versions/latest
    secInitPc,      \* per initializeSecrets call: "idle" | "running" | "done" | "failed"
    secInitPending, \* per initializeSecrets call: its fetches that have not settled yet
    secGet,         \* caller -> its getSecret call
    secWrites,      \* secret name -> how many times the cache entry was written
    secFirst,       \* secret name -> the first payload cached for it, or Absent
    secInits,       \* initializeSecrets calls made
    secGets,        \* getSecret calls made
    secOrderly,     \* the calls so far came as initializeApp makes them
    \* ---- startup (initializeApp) ----
    appPc,          \* position of initializeApp
    appListening,   \* server.listen was called
    appConfig       \* the names initializeApp has obtained a secret for

bulkVars == <<svcModule, bulkOp, bulkPc, tableName, recordsIn, processedRecords,
              loopI, allRecords, bulkReturn, apiCalls, committed, nextRecId,
              inFlight>>
boardVars == <<apiResponse, boardPc, board>>
attachVars == <<recFields, recFields0, bucketObjects, clock, reqPc, reqMode, reqFile,
                reqBlob, reqExisting, reqSeen, reqStatus, reqBody, writeLog>>
counterVars == <<counterFields, counterFields0, callPc, callCurrent, callSeen,
                 callReturn, counterLog>>
singleVars == <<singlePc, singleOp, singleTableName, singleRecordId, singleTable,
                singleId, singleReturn, singlePrev, singleError>>
contentVars == <<ctBucket, ctFields, ctWritten, ctLast, ctCount, ctStarted, ctPc, ctRoute,
                 ctTriple, ctContent, ctFile, ctPayload, ctRead, ctFetched, ctResponse,
                 ctStatus, ctBody>>
httpVars == <<httpPc, httpRoute, httpMissing, httpPlan, httpOk, httpCalls, httpFailed,
              httpWrites, httpExpected, httpAssessment, httpStatus, httpBody>>
socketVars == <<skProcess, skConnected, skRooms, skHandler, skFailure, skBroadcast,
                skCreated>>
secretsVars == <<secrets, secLatest, secInitPc, secInitPending, secGet, secWrites,
                 secFirst, secInits, secGets, secOrderly>>
startupVars == <<appPc, appListening, appConfig>>
vars == <<bulkVars, boardVars, attachVars, counterVars, singleVars, contentVars,
        httpVars, socketVars, secretsVars, startupVars>>
notBulkVars == <<boardVars, attachVars, counterVars, singleVars, contentVars, httpVars,
        socketVars, secretsVars, startupVars>>
notBoardVars == <<bulkVars, attachVars, counterVars, singleVars, contentVars, httpVars,
        socketVars, secretsVars, startupVars>>
notAttachVars == <<bulkVars, boardVars, counterVars, singleVars, contentVars, httpVars,
        socketVars, secretsVars, startupVars>>
notCounterVars == <<bulkVars, boardVars, attachVars, singleVars, contentVars, httpVars,
        socketVars, secretsVars, startupVars>>
notSingleVars == <<bulkVars, boardVars, attachVars, counterVars, contentVars, httpVars,
        socketVars, secretsVars, startupVars>>
notContentVars == <<bulkVars, boardVars, attachVars, counterVars, singleVars, httpVars,
        socketVars, secretsVars, startupVars>>
notHttpVars == <<bulkVars, boardVars, attachVars, counterVars, contentVars, singleVars,
        socketVars, secretsVars, startupVars>>
notSocketVars == <<bulkVars, boardVars, attachVars,
        counterVars, httpVars, contentVars, singleVars, secretsVars, startupVars>>
notSecretsVars == <<bulkVars, boardVars, attachVars, counterVars,
        socketVars, httpVars, contentVars, singleVars, startupVars>>
notStartupVars == <<bulkVars, boardVars, attachVars, counterVars,
        secretsVars, socketVars, httpVars, contentVars, singleVars>>
notStartupSecretsVars == <<bulkVars, boardVars, attachVars, counterVars,
        socketVars, httpVars, contentVars, singleVars>>

----------------------------------------------------------------------------
(* Bounds of the model. *)

\* longest list handed to a bulk write: three pages and a page boundary
MaxRecords == 21
\* longest list handed to transformData
MaxTasks == 3
\* the latest Date.now() a request can see (the clock starts at 1)
MaxClock == 2
\* the most content and upload requests that arrive in one run
MaxRequests == 2
\* the most calls of initializeSecrets in one run: the startup call and a repeat
MaxInits == 2
\* the most calls of getSecret by callers other than initializeApp in one run
MaxGets == 2
\* the most calls of getNextAttachmentId in one run
MaxCalls == 3
\* the most message records the store creates in one run
MaxMessages == 2

\* the page size of the paging loops (i += 10, slice(i, i + 10))
PageSize == 10
\* the recaptcha threshold 0.5, in hundredths
ScoreThreshold == 50

Min(a, b) == IF a < b THEN a ELSE b

----------------------------------------------------------------------------
(* JavaScript values a field can hold in the bulk-write inputs: a string   *)
(* (a sequence of characters), a number, NaN, or an infinity.  A number is *)
(* n * 10^e in its normal form: n has no trailing zero, and 0 is 0 * 10^0. *)
(* A character outside ASCII is written by its code point ("U+00A0").      *)

Str(chars) == [t |-> "str", s |-> chars, n |-> 0, e |-> 0]
NaN == [t |-> "nan", s |-> <<>>, n |-> 0, e |-> 0]
\* Infinity (sign 1) and -Infinity (sign -1)
Inf(sign) == [t |-> "inf", s |-> <<>>, n |-> sign, e |-> 0]

\* the number m * 10^x in normal form
RECURSIVE Dec(_, _)
Dec(m, x) ==
    IF m = 0 THEN [t |-> "num", s |-> <<>>, n |-> 0, e |-> 0]
    ELSE IF m % 10 = 0 THEN Dec(m \div 10, x + 1)
    ELSE [t |-> "num", s |-> <<>>, n |-> m, e |-> x]

Num(k) == Dec(k, 0)

Digits == <<"0", "1", "2", "3", "4", "5", "6", "7", "8", "9">>
IsDigit(c) == \E d \in 1..10 : Digits[d] = c
DigitVal(c) == (CHOOSE d \in 1..10 : Digits[d] = c) - 1

\* StrWhiteSpaceChar: WhiteSpace (TAB, VT, FF, SP, NBSP, ZWNBSP, the space
\* separators) and LineTerminator (LF, CR, LS, PS)
WhiteSpaceChars ==
    {" ", "\t", "\n", "\r", "\f", "U+000B", "U+00A0", "U+FEFF", "U+2028", "U+2029",
     "U+1680", "U+2000", "U+2001", "U+2002", "U+2003", "U+2004", "U+2005", "U+2006",
     "U+2007", "U+2008", "U+2009", "U+200A", "U+202F", "U+205F", "U+3000"}
IsSpace(c) == c \in WhiteSpaceChars

RECURSIVE TrimLeft(_)
TrimLeft(chars) ==
    IF chars # <<>> /\ IsSpace(Head(chars)) THEN TrimLeft(Tail(chars)) ELSE chars

RECURSIVE TrimRight(_)
TrimRight(chars) ==
    IF chars # <<>> /\ IsSpace(chars[Len(chars)])
    THEN TrimRight(SubSeq(chars, 1, Len(chars) - 1))
    ELSE chars

RECURSIVE DecimalValue(_)
DecimalValue(chars) ==
    IF chars = <<>> THEN 0
    ELSE 10 * DecimalValue(SubSeq(chars, 1, Len(chars) - 1)) + DigitVal(chars[Len(chars)])

\* the digits of the radix literals 0x.., 0o.., 0b.. and their values
RadixDigits ==
    <<"0", "1", "2", "3", "4", "5", "6", "7", "8", "9", "a", "b", "c", "d", "e", "f">>
UpperDigits == <<"A", "B", "C", "D", "E", "F">>
RadixDigitVal(c) ==
    IF \E d \in 1..16 : RadixDigits[d] = c
    THEN (CHOOSE d \in 1..16 : RadixDigits[d] = c) - 1
    ELSE IF \E d \in 1..6 : UpperDigits[d] = c
    THEN (CHOOSE d \in 1..6 : UpperDigits[d] = c) + 9
    ELSE 16
IsRadixRun(chars, radix) ==
    /\ chars # <<>>
    /\ \A k \in 1..Len(chars) : RadixDigitVal(chars[k]) < radix

RECURSIVE RadixValue(_, _)
RadixValue(chars, radix) ==
    IF chars = <<>> THEN 0
    ELSE radix * RadixValue(SubSeq(chars, 1, Len(chars) - 1), radix)
            + RadixDigitVal(chars[Len(chars)])

\* the radix of a literal that starts 0x / 0o / 0b (either case), 0 otherwise
radixOf(body) ==
    IF Len(body) < 2 \/ body[1] # "0" THEN 0
    ELSE IF body[2] \in {"x", "X"} THEN 16
    ELSE IF body[2] \in {"o", "O"} THEN 8
    ELSE IF body[2] \in {"b", "B"} THEN 2
    ELSE 0

IsDigitRun(chars) == \A k \in 1..Len(chars) : IsDigit(chars[k])

\* the position of the first character of a set in a sequence, 0 if none
firstOf(chars, set) ==
    IF \E k \in 1..Len(chars) : chars[k] \in set
    THEN CHOOSE k \in 1..Len(chars) :
            chars[k] \in set /\ \A j \in 1..(k - 1) : chars[j] \notin set
    ELSE 0

\* the number of decimal digits of a positive integer
RECURSIVE digitCount(_)
digitCount(m) == IF m < 10 THEN 1 ELSE 1 + digitCount(m \div 10)

RECURSIVE pow10(_)
pow10(k) == IF k = 0 THEN 1 ELSE 10 * pow10(k - 1)

\* The doubles below 2^-1022 are the multiples of 2^-1074, the smallest one.
\* In units of 10^-324: 2^-1074 is 4.9406564584..., half of it is
\* 2.4703282292..., and 10^-324 is 0.2024022533... of it; the fractions are
\* written in groups of four digits, forty digits each.
ulpInverse == <<2024, 225, 3307, 3106, 1835, 2495, 3467, 1891, 7307, 495>>
halfUlp == <<4703, 2822, 9206, 2327, 2088, 2843, 9643, 4110, 6861, 8252>>

\* n * 0.F, a product too wide for one integer, by columns of four digits:
\* the sum of the digit-group products that weigh 10000^-t, and what the
\* columns from t on carry into the column before
column(n, F, t) ==
    LET f(i) == IF i \in 1..Len(F) THEN F[i] ELSE 0
    IN  (n % 10000) * f(t) + ((n \div 10000) % 10000) * f(t + 1)
            + (n \div 100000000) * f(t + 2)

RECURSIVE carry(_, _, _)
carry(n, F, t) ==
    IF t > Len(F) THEN 0 ELSE (column(n, F, t) + carry(n, F, t + 1)) \div 10000

\* the whole part of n * 0.F, and its first four fractional digits
productWhole(n, F) == column(n, F, 0) + carry(n, F, 1) + 10000 * column(n, F, -1)
productFraction(n, F) == (column(n, F, 1) + carry(n, F, 2)) % 10000

\* x divided by 10^t and rounded to the nearest integer, x being whole + 0.fraction
\* (fraction in ten-thousandths); no x here lies halfway
roundedAt(whole, fraction, t) ==
    IF t = 0 THEN whole + (IF fraction >= 5000 THEN 1 ELSE 0)
    ELSE (whole + 5 * pow10(t - 1)) \div pow10(t)

\* the multiple of 2^-1074 nearest to n * 10^-(324 + j): how many times 2^-1074
subnormalSteps(n, j) ==
    IF j > 9 THEN 0
    ELSE roundedAt(productWhole(n, ulpInverse), productFraction(n, ulpInverse), j)

\* the double k * 2^-1074 (0 < k) as the number that names it: of the decimals
\* that round to it, those of the fewest digits, and of these the nearest
subnormal(sign, k) ==
    LET lo == 2 * (2 * k - 1) + productWhole(2 * k - 1, halfUlp)
        hi == 2 * (2 * k + 1) + productWhole(2 * k + 1, halfUlp)
        t == CHOOSE u \in 0..9 :
                /\ hi \div pow10(u) > lo \div pow10(u)
                /\ \A v \in (u + 1)..9 : hi \div pow10(v) = lo \div pow10(v)
        near == roundedAt(4 * k + productWhole(2 * k, halfUlp),
                          productFraction(2 * k, halfUlp), t)
        least == lo \div pow10(t) + 1
        most == hi \div pow10(t)
    IN  Dec(sign * (IF near < least THEN least ELSE IF near > most THEN most ELSE near),
            t - 324)

\* the double nearest to sign * m * 10^x (m > 0, of up to 9 digits): above the
\* largest double it is an infinity; a number of 9 digits whose last digit
\* weighs 10^-323 or more names its double; below that the doubles are the
\* multiples of 2^-1074, and below half of it the double is 0
toDouble(sign, m, x) ==
    LET n == Dec(m, x).n
        e == Dec(m, x).e
        top == digitCount(n) + e - 1
    IN  IF top > 308 \/ (top = 308 /\ n * pow10(9 - digitCount(n)) > 179769313)
        THEN Inf(sign)
        ELSE IF e >= -323 THEN Dec(sign * n, e)
        ELSE IF subnormalSteps(n, -324 - e) = 0 THEN Dec(0, 0)
        ELSE subnormal(sign, subnormalSteps(n, -324 - e))

\* the number of zeros a digit run ends with
RECURSIVE trailingZeros(_)
trailingZeros(chars) ==
    IF chars # <<>> /\ chars[Len(chars)] = "0"
    THEN 1 + trailingZeros(SubSeq(chars, 1, Len(chars) - 1))
    ELSE 0

\* StrDecimalLiteral without its sign: Infinity, or digits with an optional
\* fraction and an optional exponent part
unsignedLiteral(sign, chars) ==
    IF chars = <<"I", "n", "f", "i", "n", "i", "t", "y">> THEN Inf(sign)
    ELSE LET ePos == firstOf(chars, {"e", "E"})
             mantissa == IF ePos = 0 THEN chars ELSE SubSeq(chars, 1, ePos - 1)
             expPart == IF ePos = 0 THEN <<>> ELSE SubSeq(chars, ePos + 1, Len(chars))
             expSigned == expPart # <<>> /\ Head(expPart) \in {"+", "-"}
             expDigits == IF expSigned THEN Tail(expPart) ELSE expPart
             dot == firstOf(mantissa, {"."})
             whole == IF dot = 0 THEN mantissa ELSE SubSeq(mantissa, 1, dot - 1)
             fraction == IF dot = 0 THEN <<>> ELSE SubSeq(mantissa, dot + 1, Len(mantissa))
             exponent == IF expSigned /\ Head(expPart) = "-"
                         THEN 0 - DecimalValue(expDigits) ELSE DecimalValue(expDigits)
             zeros == trailingZeros(whole \o fraction)
             significand == SubSeq(whole \o fraction, 1, Len(whole \o fraction) - zeros)
         IN  IF \/ ~IsDigitRun(whole) \/ ~IsDigitRun(fraction)
                \/ whole \o fraction = <<>>
                \/ (ePos # 0 /\ (expDigits = <<>> \/ ~IsDigitRun(expDigits)))
             THEN NaN
             ELSE IF DecimalValue(significand) = 0 THEN Dec(0, 0)
             ELSE toDouble(sign, DecimalValue(significand),
                           exponent - Len(fraction) + zeros)

\* StringToNumber: the text is trimmed of white space; the empty text is 0; a
\* radix literal has no sign; a decimal literal has an optional sign
stringToNumber(chars) ==
    LET body == TrimRight(TrimLeft(chars))
    IN  IF body = <<>> THEN Dec(0, 0)
        ELSE IF radixOf(body) # 0
        THEN (IF IsRadixRun(SubSeq(body, 3, Len(body)), radixOf(body))
              THEN Dec(RadixValue(SubSeq(body, 3, Len(body)), radixOf(body)), 0)
              ELSE NaN)
        ELSE IF Head(body) = "-" THEN unsignedLiteral(-1, Tail(body))
        ELSE IF Head(body) = "+" THEN unsignedLiteral(1, Tail(body))
        ELSE unsignedLiteral(1, body)

\* Number(value) on the values above: a number, NaN and an infinity are
\* themselves; a string is converted by StringToNumber.  Digit runs are taken
\* up to 9 significant digits (zeros before and after them apart), which a
\* double from 2^-1022 on holds exactly.
Number(value) ==
    IF value.t = "str" THEN stringToNumber(value.s) ELSE value

----------------------------------------------------------------------------
(* Table-name resolution. *)

MAIN_TABLE_NAME == "tblpIHBsPfZXu8IFs"

\* a resolution that hands an unregistered name on as the table id
getTableNamePassesUnknown(name) ==
    CASE name = "counter" -> "tblS3ijjC5fBGTuPR"
      [] name = "actions" -> "tblKQ8MMZMirJduk7"
      [] name = "activities" -> "tblNQFudN16AwUKBM"
      [] name = "tasks" -> "tbl9D8m3mF2RVptEc"
      [] name = "collaborators" -> "tblev0ek2lTzgxIMQ"
      [] name = "task_attachments" -> "tblwPb1smWrdFtTfE"
      [] name = "task_checklists" -> "tblbOAaUlFZvPzTTJ"
      [] name = "task_chat" -> "tblmByy6LcRAYyf0y"
      [] name = "task_forms" -> "tblLxZdNHFCq8ETVL"
      [] name = "task_forms_fields" -> "tbl91WJ2yjJX6ndAs"
      [] name = "task_forms_submissions" -> "tbllxpBCIdShL5Mih"
      [] name = "task_groups" -> "tblCD3xEADjeAG3d4"
      [] name = "informational_pages" -> "tblM7936jKJeBdw36"
      [] name = "image_assets" -> "tblTP0vUb0aMMTpIr"
      [] OTHER -> name

\* getTableName of the adapter index.js drives
getTableName(name) ==
    CASE name = "counter" -> "tblS3ijjC5fBGTuPR"
      [] name = "actions" -> "tblKQ8MMZMirJduk7"
      [] name = "activities" -> "tblNQFudN16AwUKBM"
      [] name = "tasks" -> "tbl9D8m3mF2RVptEc"
      [] name = "collaborators" -> "tblev0ek2lTzgxIMQ"
      [] name = "task_attachments" -> "tblwPb1smWrdFtTfE"
      [] name = "task_checklists" -> "tblbOAaUlFZvPzTTJ"
      [] name = "task_chat" -> "tblmByy6LcRAYyf0y"
      [] name = "task_forms" -> "tblLxZdNHFCq8ETVL"
      [] name = "task_forms_fields" -> "tbl91WJ2yjJX6ndAs"
      [] name = "task_forms_submissions" -> "tbllxpBCIdShL5Mih"
      [] name = "task_groups" -> "tblCD3xEADjeAG3d4"
      [] name = "informational_pages" -> "tblM7936jKJeBdw36"
      [] name = "image_assets" -> "tblTP0vUb0aMMTpIr"
      [] OTHER -> MAIN_TABLE_NAME

\* the main table id of src/airtableService.js: an environment variable
LEGACY_MAIN_TABLE_NAME == "env:AIRTABLE_TABLE_NAME"

\* getTableName of src/airtableService.js: ids come from the environment
getTableNameLegacy(name) ==
    CASE name = "counter" -> "env:AIRTABLE_TABLE_COUNTER"
      [] name = "actions" -> "env:AIRTABLE_ACTIONS_TABLE_ID"
      [] name = "activities" -> "env:AIRTABLE_ACTIVITES_TABLE_ID"
      [] name = "tasks" -> "env:AIRTABLE_TABLE_TASKS_ID"
      [] name = "collaborators" -> "env:AIRTABLE_TABLE_COLLABORATORS_ID"
      [] name = "task_attachments" -> "env:AIRTABLE_TABLE_TASK_ATTACHMENTS_ID"
      [] name = "task_checklists" -> "env:AIRTABLE_TABLE_TASK_CHECKLISTS_ID"
      [] name = "task_chat" -> "env:AIRTABLE_TABLE_TASK_CHAT_ID"
      [] name = "task_forms" -> "env:AIRTABLE_TABLE_TASK_FORMS_ID"
      [] name = "task_forms_fields" -> "env:AIRTABLE_TABLE_TASK_FORMS_FIELDS_ID"
      [] name = "task_forms_submissions" -> "env:AIRTABLE_TABLE_TASK_FORMS_SUBMISSIONS_ID"
      [] OTHER -> LEGACY_MAIN_TABLE_NAME

----------------------------------------------------------------------------
(* Bulk writes: createRecords and updateMultipleRecords. *)

numericFields == {"Full Cost", "Paid", "Balance"}

\* the per-field coercion of createRecords (cleanedFields)
cleanedFields(fields) ==
    [f \in DOMAIN fields |->
        IF f \in numericFields
        THEN (IF fields[f] = Str(<<>>) THEN Num(0) ELSE Number(fields[f]))
        ELSE fields[f]]

\* a createRecords that coerces the numeric fields whatever the table
processRecordsEveryTable(records, table, mainTable) ==
    [k \in 1..Len(records) |-> [fields |-> cleanedFields(records[k].fields)]]

\* processedRecords of createRecords; mainTable is the adapter's MAIN_TABLE_NAME
processRecords(records, table, mainTable) ==
    IF table # mainTable THEN records
    ELSE [k \in 1..Len(records) |-> [fields |-> cleanedFields(records[k].fields)]]

\* Array.prototype.slice(i, i + 10) with a 0-based i
slice(list, i) == SubSeq(list, i + 1, Min(i + PageSize, Len(list)))

\* the table id the running adapter copy resolves a logical name to
resolvedTable(name) ==
    IF svcModule = "part_000" THEN getTableName(name) ELSE getTableNameLegacy(name)

\* the store's answer to a successful bulk create: one created record per record
\* sent, in the order sent, each with a fresh id
createdBy(chunk, firstId) ==
    [k \in 1..Len(chunk) |-> [fields |-> chunk[k].fields, id |-> firstId + k - 1]]

\* the store's answer to a successful bulk update: the updated records in the
\* order sent
updatedBy(chunk) ==
    [k \in 1..Len(chunk) |-> [fields |-> chunk[k].fields, id |-> chunk[k].id]]

storeAnswer(op, chunk, firstId) ==
    IF op = "create" THEN createdBy(chunk, firstId) ELSE updatedBy(chunk)

\* a paging loop that puts each page's answer in front of the earlier ones
pushFront(all, answer) == answer \o all

\* allCreatedRecords.push(...response.data.records) / allUpdatedRecords.push(...updatedChunk)
push(all, answer) == all \o answer

callEntry(op, name, chunk, ok) ==
    [records |-> chunk, table |-> resolvedTable(name), op |-> op, ok |-> ok]

\* The store is external: any bulk-write call may succeed or fail, whatever it
\* carries (the adapter itself never looks at a page's size before sending it).

\* ---- inputs ----
CostSamples ==
    <<Str(<<>>), Str(<<"1", "2">>), Num(7), Str(<<"a">>), Str(<<" ">>),
      Str(<<"-", "3">>), Str(<<"1", ".", "5">>), Str(<<"1", "e", "3">>),
      Str(<<"0", "x", "1", "F">>), Str(<<"\t", "4", "\n">>)>>
LogicalNames == {"projects", "tasks"}

\* the k-th record of a caller's list: { fields } for a create, { id, fields }
\* for an update
InputRecord(op, k) ==
    LET f == ("Full Cost" :> CostSamples[(k % Len(CostSamples)) + 1]) @@ ("Name" :> Num(k))
    IN  IF op = "create" THEN [fields |-> f] ELSE [fields |-> f, id |-> 100 + k]

InputList(op, n) == [k \in 1..n |-> InputRecord(op, k)]

\* createRecords(recordsToCreate, tableName), up to the first page
createRecords(records, name) ==
    /\ bulkPc = "idle"
    /\ bulkOp' = "create"
    /\ tableName' = name
    /\ recordsIn' = records
    /\ processedRecords' =
          processRecords(records, resolvedTable(name),
                         IF svcModule = "part_000" THEN MAIN_TABLE_NAME
                         ELSE LEGACY_MAIN_TABLE_NAME)
    /\ loopI' = 0
    /\ allRecords' = <<>>
    /\ bulkPc' = IF svcModule = "part_000" THEN "loop" ELSE "single"
    /\ UNCHANGED <<svcModule, bulkReturn, apiCalls, committed, nextRecId, inFlight>>
    /\ UNCHANGED notBulkVars

\* updateMultipleRecords(recordsToUpdate, tableName), up to the first page
updateMultipleRecords(records, name) ==
    /\ bulkPc = "idle"
    /\ bulkOp' = "update"
    /\ tableName' = name
    /\ recordsIn' = records
    /\ processedRecords' = records
    /\ loopI' = 0
    /\ allRecords' = <<>>
    /\ bulkPc' = IF svcModule = "part_000" THEN "loop" ELSE "single"
    /\ UNCHANGED <<svcModule, bulkReturn, apiCalls, committed, nextRecId, inFlight>>
    /\ UNCHANGED notBulkVars

\* a loop that starts its next call without awaiting the one before
nothingAwaited == TRUE

\* await: the loop body goes on only when the call it made has settled
previousSettled == inFlight = <<>>

\* one turn of the paging loop, up to its await: the page cut at i is sent
\* (airtableApi.post / base(table).update)
sendPage ==
    /\ bulkPc = "loop"
    /\ loopI < Len(processedRecords)
    /\ previousSettled
    /\ inFlight' = Append(inFlight, loopI)
    /\ UNCHANGED <<svcModule, bulkOp, bulkPc, tableName, recordsIn, processedRecords,
                   loopI, allRecords, bulkReturn, apiCalls, committed, nextRecId>>
    /\ UNCHANGED notBulkVars

\* the page call in flight succeeds: the rest of the loop body, and i += 10
pageSucceeds ==
    /\ bulkPc = "loop"
    /\ loopI < Len(processedRecords)
    /\ inFlight # <<>>
    /\ inFlight' = Tail(inFlight)
    /\ LET chunk == slice(processedRecords, loopI)
           answer == storeAnswer(bulkOp, chunk, nextRecId)
       IN  /\ apiCalls' = Append(apiCalls, callEntry(bulkOp, tableName, chunk, TRUE))
           /\ committed' = committed \o answer
           /\ allRecords' = push(allRecords, answer)
           /\ nextRecId' = IF bulkOp = "create" THEN nextRecId + Len(chunk) ELSE nextRecId
    /\ loopI' = loopI + PageSize
    /\ UNCHANGED <<svcModule, bulkOp, bulkPc, tableName, recordsIn, processedRecords,
                   bulkReturn>>
    /\ UNCHANGED notBulkVars

\* a paging loop that logs a failed page and goes on with the next one
pageFailsGoesOn ==
    /\ bulkPc = "loop"
    /\ loopI < Len(processedRecords)
    /\ inFlight # <<>>
    /\ inFlight' = Tail(inFlight)
    /\ apiCalls' = Append(apiCalls,
                          callEntry(bulkOp, tableName, slice(processedRecords, loopI), FALSE))
    /\ loopI' = loopI + PageSize
    /\ UNCHANGED <<svcModule, bulkOp, bulkPc, tableName, recordsIn, processedRecords,
                   allRecords, bulkReturn, committed, nextRecId>>
    /\ UNCHANGED notBulkVars

\* the page call in flight fails: the catch block logs and rethrows
pageFails ==
    /\ bulkPc = "loop"
    /\ loopI < Len(processedRecords)
    /\ inFlight # <<>>
    /\ inFlight' = Tail(inFlight)
    /\ apiCalls' = Append(apiCalls,
                          callEntry(bulkOp, tableName, slice(processedRecords, loopI), FALSE))
    /\ bulkPc' = "thrown"
    /\ UNCHANGED <<svcModule, bulkOp, tableName, recordsIn, processedRecords, loopI,
                   allRecords, bulkReturn, committed, nextRecId>>
    /\ UNCHANGED notBulkVars

\* the loop ends: return { records: allCreatedRecords / allUpdatedRecords }
loopReturns ==
    /\ bulkPc = "loop"
    /\ ~(loopI < Len(processedRecords))
    /\ bulkReturn' = allRecords
    /\ bulkPc' = "returned"
    /\ UNCHANGED <<svcModule, bulkOp, tableName, recordsIn, processedRecords, loopI,
                   allRecords, apiCalls, committed, nextRecId, inFlight>>
    /\ UNCHANGED notBulkVars

\* src/airtableService.js: the whole list in one post / patch, which succeeds
singleCallSucceeds ==
    /\ bulkPc = "single"
    /\ LET answer == storeAnswer(bulkOp, processedRecords, nextRecId)
       IN  /\ apiCalls' = Append(apiCalls,
                                 callEntry(bulkOp, tableName, processedRecords, TRUE))
           /\ committed' = committed \o answer
           /\ bulkReturn' = answer
           /\ nextRecId' = IF bulkOp = "create" THEN nextRecId + Len(processedRecords)
                           ELSE nextRecId
    /\ bulkPc' = "returned"
    /\ UNCHANGED <<svcModule, bulkOp, tableName, recordsIn, processedRecords, loopI,
                   allRecords, inFlight>>
    /\ UNCHANGED notBulkVars

\* src/airtableService.js: the one call fails
singleCallFails ==
    /\ bulkPc = "single"
    /\ apiCalls' = Append(apiCalls, callEntry(bulkOp, tableName, processedRecords, FALSE))
    /\ bulkPc' = "thrown"
    /\ UNCHANGED <<svcModule, bulkOp, tableName, recordsIn, processedRecords, loopI,
                   allRecords, bulkReturn, committed, nextRecId, inFlight>>
    /\ UNCHANGED notBulkVars

InitBulk ==
    /\ svcModule \in {"part_000", "airtableService.js"}
    /\ bulkOp = "none"
    /\ bulkPc = "idle"
    /\ tableName = ""
    /\ recordsIn = <<>>
    /\ processedRecords = <<>>
    /\ loopI = 0
    /\ allRecords = <<>>
    /\ bulkReturn = <<>>
    /\ apiCalls = <<>>
    /\ committed = <<>>
    /\ nextRecId = 1
    /\ inFlight = <<>>

NextBulk ==
    \/ \E n \in 0..MaxRecords, name \in LogicalNames :
          createRecords(InputList("create", n), name)
    \/ \E n \in 0..MaxRecords, name \in LogicalNames :
          updateMultipleRecords(InputList("update", n), name)
    \/ sendPage
    \/ pageSucceeds
    \/ pageFails
    \/ loopReturns
    \/ singleCallSucceeds
    \/ singleCallFails

----------------------------------------------------------------------------
(* The board transform: transformData.  A record's fields are a function   *)
(* from field names to values; an absent field is a name outside DOMAIN.   *)

groupingFields == {"task_groups", "group_name", "group_order"}

\* positions 1..n of keys in ascending key order, equal keys in position order:
\* what Array.prototype.sort (stable) does with the comparator key(a) - key(b)
RECURSIVE sortedPositions(_, _)
sortedPositions(keys, n) ==
    IF n = 0 THEN <<>>
    ELSE LET prev == sortedPositions(keys, n - 1)
             c == Cardinality({i \in 1..Len(prev) : keys[prev[i]] <= keys[n]})
         IN  SubSeq(prev, 1, c) \o <<n>> \o SubSeq(prev, c + 1, Len(prev))

arraySort(items, keys) ==
    LET p == sortedPositions(keys, Len(items))
    IN  [k \in 1..Len(items) |-> items[p[k]]]

\* a.order ?? 0
orderKey(task) == IF "order" \in DOMAIN task THEN task["order"] ELSE 0

\* a copy of the fields that forgets to delete group_name
taskOfKeepsGroupName(record) ==
    [f \in DOMAIN record.fields \ {"task_groups", "group_order"} |-> record.fields[f]]

\* const task = { ...record.fields } with the three grouping fields deleted
taskOf(record) ==
    [f \in DOMAIN record.fields \ groupingFields |-> record.fields[f]]

\* record.fields.task_groups && record.fields.task_groups.length > 0
hasGroup(record) ==
    /\ "task_groups" \in DOMAIN record.fields
    /\ Len(record.fields["task_groups"]) > 0

\* record.fields.group_name?.[0] || "Unnamed Group"
groupNameOf(record) ==
    IF /\ "group_name" \in DOMAIN record.fields
       /\ Len(record.fields["group_name"]) > 0
       /\ record.fields["group_name"][1] # ""
    THEN record.fields["group_name"][1]
    ELSE "Unnamed Group"

\* record.fields.group_order?.[0] ?? 0
groupOrderOf(record) ==
    IF /\ "group_order" \in DOMAIN record.fields
       /\ Len(record.fields["group_order"]) > 0
    THEN record.fields["group_order"][1]
    ELSE 0

\* a first loop that files a record under the last entry of task_groups
placeRecordByLastLink(acc, record) ==
    IF hasGroup(record)
    THEN LET groupId == record.fields["task_groups"][Len(record.fields["task_groups"])]
             known == {i \in 1..Len(acc.groups) : acc.groups[i].task_groups = groupId}
         IN  IF known = {}
             THEN [acc EXCEPT !.groups =
                      Append(@, [task_groups |-> groupId,
                                 group_name |-> groupNameOf(record),
                                 group_order |-> groupOrderOf(record),
                                 tasks |-> <<taskOf(record)>>])]
             ELSE LET i == CHOOSE j \in known : TRUE
                  IN  [acc EXCEPT !.groups[i].tasks = Append(@, taskOf(record))]
    ELSE [acc EXCEPT !.ungrouped = Append(@, taskOf(record))]

\* a first loop in which every record of a group sets the group's name and order
placeRecordRenames(acc, record) ==
    IF hasGroup(record)
    THEN LET groupId == record.fields["task_groups"][1]
             known == {i \in 1..Len(acc.groups) : acc.groups[i].task_groups = groupId}
         IN  IF known = {}
             THEN [acc EXCEPT !.groups =
                      Append(@, [task_groups |-> groupId,
                                 group_name |-> groupNameOf(record),
                                 group_order |-> groupOrderOf(record),
                                 tasks |-> <<taskOf(record)>>])]
             ELSE LET i == CHOOSE j \in known : TRUE
                  IN  [acc EXCEPT !.groups[i] =
                          [task_groups |-> groupId,
                           group_name |-> groupNameOf(record),
                           group_order |-> groupOrderOf(record),
                           tasks |-> Append(@.tasks, taskOf(record))]]
    ELSE [acc EXCEPT !.ungrouped = Append(@, taskOf(record))]

\* one turn of the first loop: the record goes to its group (created on first
\* sight, at the end of the map) or to ungrouped
placeRecord(acc, record) ==
    IF hasGroup(record)
    THEN LET groupId == record.fields["task_groups"][1]
             known == {i \in 1..Len(acc.groups) : acc.groups[i].task_groups = groupId}
         IN  IF known = {}
             THEN [acc EXCEPT !.groups =
                      Append(@, [task_groups |-> groupId,
                                 group_name |-> groupNameOf(record),
                                 group_order |-> groupOrderOf(record),
                                 tasks |-> <<taskOf(record)>>])]
             ELSE LET i == CHOOSE j \in known : TRUE
                  IN  [acc EXCEPT !.groups[i].tasks = Append(@, taskOf(record))]
    ELSE [acc EXCEPT !.ungrouped = Append(@, taskOf(record))]

\* the first loop over apiResponse.records
RECURSIVE partitionRecords(_)
partitionRecords(records) ==
    IF records = <<>> THEN [groups |-> <<>>, ungrouped |-> <<>>]
    ELSE placeRecord(partitionRecords(SubSeq(records, 1, Len(records) - 1)),
                     records[Len(records)])

\* a sort that leaves tasks of equal order in the reverse of their input order
sortTasksTiesReversed(tasks) ==
    LET turned == [k \in 1..Len(tasks) |-> tasks[Len(tasks) + 1 - k]]
    IN  arraySort(turned, [k \in 1..Len(turned) |-> orderKey(turned[k])])

\* tasks.sort((a, b) => (a.order ?? 0) - (b.order ?? 0))
sortTasks(tasks) == arraySort(tasks, [k \in 1..Len(tasks) |-> orderKey(tasks[k])])

\* t.order = idx
withOrder(task, idx) ==
    [f \in DOMAIN task \cup {"order"} |-> IF f = "order" THEN idx ELSE task[f]]

\* a sort that is not followed by the rewrite of order
resetOrderSortsOnly(tasks) == sortTasks(tasks)

\* the sort followed by forEach((t, idx) => { t.order = idx })
resetOrder(tasks) ==
    LET sorted == sortTasks(tasks)
    IN  [k \in 1..Len(sorted) |-> withOrder(sorted[k], k - 1)]

\* the groups left in the order the map holds them
sortGroupsKeepsMapOrder(groups) == groups

\* Array.from(groupsMap.values()).sort((a, b) => a.group_order - b.group_order)
sortGroups(groups) ==
    arraySort(groups, [k \in 1..Len(groups) |-> groups[k].group_order])

\* a transform that renumbers ungrouped without sorting it first
transformDataRenumbersUngrouped(records) ==
    LET parts == partitionRecords(records)
        reset == [k \in 1..Len(parts.groups) |->
                     [parts.groups[k] EXCEPT !.tasks = resetOrder(@)]]
    IN  [groups |-> sortGroups(reset),
         ungrouped |-> [k \in 1..Len(parts.ungrouped) |->
                           withOrder(parts.ungrouped[k], k - 1)]]

transformData(records) ==
    LET parts == partitionRecords(records)
        reset == [k \in 1..Len(parts.groups) |->
                     [parts.groups[k] EXCEPT !.tasks = resetOrder(@)]]
    IN  [groups |-> sortGroups(reset), ungrouped |-> resetOrder(parts.ungrouped)]

\* ---- inputs ----
\* the field sets a record of the input can carry, besides its Name
RecordKinds ==
    << <<>>,
       [order |-> 2],
       [task_groups |-> <<>>, group_name |-> <<"Ghost">>, group_order |-> <<9>>,
        order |-> 1],
       [task_groups |-> <<"grpA">>, group_name |-> <<"Alpha">>, group_order |-> <<5>>,
        order |-> 1],
       [task_groups |-> <<"grpA">>, group_name |-> <<"Renamed">>, group_order |-> <<1>>],
       [task_groups |-> <<"grpB">>, group_order |-> <<2>>, order |-> 0],
       [task_groups |-> <<"grpB", "grpA">>, group_name |-> <<"">>, order |-> 2],
       [task_groups |-> <<"grpC">>, group_name |-> <<"Gamma">>, group_order |-> <<5>>,
        order |-> 1],
       [order |-> 0] >>

\* the k-th record of a response whose kinds are given: Name tells the records apart
responseOf(kinds) ==
    [k \in 1..Len(kinds) |-> [fields |-> RecordKinds[kinds[k]] @@ ("Name" :> k),
                              id |-> k]]

BoardInputs ==
    UNION {{responseOf(kinds) : kinds \in [1..n -> 1..Len(RecordKinds)]} : n \in 0..MaxTasks}

\* GET /api/records/board: the transform applied to the fetched records
transformBoard ==
    /\ boardPc = "input"
    /\ board' = transformData(apiResponse)
    /\ boardPc' = "done"
    /\ UNCHANGED apiResponse
    /\ UNCHANGED notBoardVars

InitBoard ==
    /\ apiResponse \in BoardInputs
    /\ boardPc = "input"
    /\ board = [groups |-> <<>>, ungrouped |-> <<>>]

NextBoard == transformBoard

----------------------------------------------------------------------------
(* The attachment routes of index.js: POST /api/upload (append) and         *)
(* POST /api/replace, both on one record field of one table.               *)

Requests == {1, 2}
FileNames == {"a.pdf", "b.pdf"}
NoFile == "NoFile"
BucketName == "bucket"
AttachmentField == "Attachments"

\* Date.now() + '-' + req.file.originalname
blobName(now, originalname) == <<now, originalname>>

\* `https://storage.googleapis.com/${bucket.name}/${blob.name}`
publicUrl(blob) == <<"https://storage.googleapis.com", BucketName, blob>>

\* const newAttachment = { url: publicUrl, filename: req.file.originalname }
newAttachment(r) == [url |-> publicUrl(reqBlob[r]), filename |-> reqFile[r]]

\* fields[fieldName] || []
fieldOrEmpty(fields) ==
    IF AttachmentField \in DOMAIN fields THEN fields[AttachmentField] ELSE <<>>

\* an upload route that puts the new attachment first, and a replace route that
\* keeps what it was to discard
updatedAttachmentsNewFirst(r) ==
    IF reqMode[r] = "append" THEN <<newAttachment(r)>> \o reqExisting[r]
    ELSE <<newAttachment(r)>> \o fieldOrEmpty(recFields)

\* an upload route that appends to the list the field holds when it writes
\* (an atomic append), not to the list it read
updatedAttachmentsAtWrite(r) ==
    IF reqMode[r] = "append" THEN Append(fieldOrEmpty(recFields), newAttachment(r))
    ELSE <<newAttachment(r)>>

\* the list a route hands to updateRecord: [...existingAttachments, newAttachment]
\* in the upload route, [newAttachment] in the replace route
updatedAttachments(r) ==
    IF reqMode[r] = "append" THEN Append(reqExisting[r], newAttachment(r))
    ELSE <<newAttachment(r)>>

\* base(table).update(id, fields): the named fields are overwritten, the
\* others kept
storeUpdate(fields, patch) ==
    [f \in DOMAIN fields \cup DOMAIN patch |->
        IF f \in DOMAIN patch THEN patch[f] ELSE fields[f]]

\* the attachment the record may hold before any request
PriorAttachment ==
    [url |-> publicUrl(blobName(0, "old.pdf")), filename |-> "old.pdf"]

\* err.message of a failed stream, error.message of a rejected store call
StreamErrors == {"boom"}

\* the body of the 500 the inner catch answers: the upload route
\* `Failed to update Airtable record: ${error.message}`, the replace route
\* error.message
catchBody(mode, message) ==
    [error |-> IF mode = "append"
               THEN <<"Failed to update Airtable record: ", message>>
               ELSE message]

\* the request arrives; without a file it is answered 400, otherwise the blob
\* is named and the stream to the bucket is started
receiveUpload(r, mode, file) ==
    /\ reqPc[r] = "idle"
    /\ reqMode' = [reqMode EXCEPT ![r] = mode]
    /\ reqFile' = [reqFile EXCEPT ![r] = file]
    /\ IF file = NoFile
       THEN /\ reqStatus' = [reqStatus EXCEPT ![r] = 400]
            /\ reqBody' = [reqBody EXCEPT ![r] = "No file uploaded."]
            /\ reqPc' = [reqPc EXCEPT ![r] = "done"]
            /\ UNCHANGED reqBlob
       ELSE /\ reqBlob' = [reqBlob EXCEPT ![r] = blobName(clock, file)]
            /\ reqPc' = [reqPc EXCEPT ![r] = "storing"]
            /\ UNCHANGED <<reqStatus, reqBody>>
    /\ UNCHANGED <<recFields, recFields0, bucketObjects, clock, reqExisting, reqSeen,
                   writeLog>>
    /\ UNCHANGED notAttachVars

\* blobStream 'finish': the object is in the bucket
streamFinish(r) ==
    /\ reqPc[r] = "storing"
    /\ bucketObjects' = bucketObjects \cup {reqBlob[r]}
    /\ reqPc' = [reqPc EXCEPT ![r] = IF reqMode[r] = "append" THEN "read" ELSE "update"]
    /\ UNCHANGED <<recFields, recFields0, clock, reqMode, reqFile, reqBlob, reqExisting,
                   reqSeen, reqStatus, reqBody, writeLog>>
    /\ UNCHANGED notAttachVars

\* a route whose 'error' listener goes on to the record as 'finish' does
streamErrorGoesOn(r, message) ==
    /\ reqPc[r] = "storing"
    /\ reqPc' = [reqPc EXCEPT ![r] = IF reqMode[r] = "append" THEN "read" ELSE "update"]
    /\ UNCHANGED <<recFields, recFields0, bucketObjects, clock, reqMode, reqFile, reqBlob,
                   reqExisting, reqSeen, reqStatus, reqBody, writeLog>>
    /\ UNCHANGED notAttachVars

\* blobStream 'error': 500; the upload route answers
\* `GCS Upload Stream Error: ${err.message}`, the replace route err.message
streamError(r, message) ==
    /\ reqPc[r] = "storing"
    /\ reqStatus' = [reqStatus EXCEPT ![r] = 500]
    /\ reqBody' = [reqBody EXCEPT ![r] =
                      [error |-> IF reqMode[r] = "append"
                                 THEN <<"GCS Upload Stream Error: ", message>>
                                 ELSE message]]
    /\ reqPc' = [reqPc EXCEPT ![r] = "done"]
    /\ UNCHANGED <<recFields, recFields0, bucketObjects, clock, reqMode, reqFile, reqBlob,
                   reqExisting, reqSeen, writeLog>>
    /\ UNCHANGED notAttachVars

\* upload route: currentRecord = await getRecord(...); existingAttachments
readExisting(r) ==
    /\ reqPc[r] = "read"
    /\ reqExisting' = [reqExisting EXCEPT ![r] = fieldOrEmpty(recFields)]
    /\ reqSeen' = [reqSeen EXCEPT ![r] = Len(writeLog)]
    /\ reqPc' = [reqPc EXCEPT ![r] = "update"]
    /\ UNCHANGED <<recFields, recFields0, bucketObjects, clock, reqMode, reqFile, reqBlob,
                   reqStatus, reqBody, writeLog>>
    /\ UNCHANGED notAttachVars

\* getRecord throws: the inner catch answers 500
readFails(r, message) ==
    /\ reqPc[r] = "read"
    /\ reqStatus' = [reqStatus EXCEPT ![r] = 500]
    /\ reqBody' = [reqBody EXCEPT ![r] = catchBody(reqMode[r], message)]
    /\ reqPc' = [reqPc EXCEPT ![r] = "done"]
    /\ UNCHANGED <<recFields, recFields0, bucketObjects, clock, reqMode, reqFile, reqBlob,
                   reqExisting, reqSeen, writeLog>>
    /\ UNCHANGED notAttachVars

\* updatedRecord = await updateRecord(...); res.status(200).json(fields[fieldName])
writeField(r) ==
    /\ reqPc[r] = "update"
    /\ recFields' = storeUpdate(recFields, AttachmentField :> updatedAttachments(r))
    /\ reqBody' = [reqBody EXCEPT ![r] = recFields'[AttachmentField]]
    /\ reqStatus' = [reqStatus EXCEPT ![r] = 200]
    /\ writeLog' = Append(writeLog, r)
    /\ reqPc' = [reqPc EXCEPT ![r] = "done"]
    /\ UNCHANGED <<recFields0, bucketObjects, clock, reqMode, reqFile, reqBlob,
                   reqExisting, reqSeen>>
    /\ UNCHANGED notAttachVars

\* updateRecord throws: the inner catch answers 500
writeFails(r, message) ==
    /\ reqPc[r] = "update"
    /\ reqStatus' = [reqStatus EXCEPT ![r] = 500]
    /\ reqBody' = [reqBody EXCEPT ![r] = catchBody(reqMode[r], message)]
    /\ reqPc' = [reqPc EXCEPT ![r] = "done"]
    /\ UNCHANGED <<recFields, recFields0, bucketObjects, clock, reqMode, reqFile, reqBlob,
                   reqExisting, reqSeen, writeLog>>
    /\ UNCHANGED notAttachVars

\* time passes
tick ==
    /\ clock < MaxClock
    /\ clock' = clock + 1
    /\ UNCHANGED <<recFields, recFields0, bucketObjects, reqPc, reqMode, reqFile, reqBlob,
                   reqExisting, reqSeen, reqStatus, reqBody, writeLog>>
    /\ UNCHANGED notAttachVars

InitAttach ==
    /\ recFields \in {("Notes" :> <<>>),
                      ("Notes" :> <<>>) @@ (AttachmentField :> <<PriorAttachment>>)}
    /\ recFields0 = recFields
    /\ bucketObjects = {}
    /\ clock = 1
    /\ reqPc = [r \in Requests |-> "idle"]
    /\ reqMode = [r \in Requests |-> "none"]
    /\ reqFile = [r \in Requests |-> NoFile]
    /\ reqBlob = [r \in Requests |-> blobName(0, NoFile)]
    /\ reqExisting = [r \in Requests |-> <<>>]
    /\ reqSeen = [r \in Requests |-> 0]
    /\ reqStatus = [r \in Requests |-> 0]
    /\ reqBody = [r \in Requests |-> <<>>]
    /\ writeLog = <<>>

NextAttach ==
    \/ \E r \in Requests, mode \in {"append", "replace"}, file \in FileNames \cup {NoFile} :
          receiveUpload(r, mode, file)
    \/ \E r \in Requests : streamFinish(r)
    \/ \E r \in Requests, message \in StreamErrors : streamError(r, message)
    \/ \E r \in Requests : readExisting(r)
    \/ \E r \in Requests, message \in StreamErrors : readFails(r, message)
    \/ \E r \in Requests : writeField(r)
    \/ \E r \in Requests, message \in StreamErrors : writeFails(r, message)
    \/ tick

----------------------------------------------------------------------------
(* The singleton counter: getNextAttachmentId.                              *)

Calls == 1..MaxCalls
COUNTER_RECORD_ID == "recVvoLbScv02b54S"
CounterField == "task_attachment_id_counter"

\* a target that is always the caller's id
targetIdAsGiven(name, recordId) == recordId

\* const id = tableName === 'counter' ? COUNTER_RECORD_ID : recordId
\* (getRecord and updateRecord)
targetId(name, recordId) == IF name = "counter" THEN COUNTER_RECORD_ID ELSE recordId

\* a counter that starts from 1 when the record has no counter field
currentIdOfDefaultsToOne(fields) ==
    IF CounterField \in DOMAIN fields /\ fields[CounterField] # 0
    THEN fields[CounterField] ELSE 1

\* counterRecord.fields.task_attachment_id_counter || 0
currentIdOf(fields) ==
    IF CounterField \in DOMAIN fields /\ fields[CounterField] # 0
    THEN fields[CounterField] ELSE 0

\* an increment taken from the stored value at the time of the write-back
nextIdAtWrite(c) == currentIdOf(counterFields) + 1

\* const nextId = currentId + 1
nextIdOf(c) == callCurrent[c] + 1

\* counterRecord = await getRecord('counter'); currentId
readCounter(c) ==
    /\ callPc[c] = "idle"
    /\ targetId("counter", "undefined") = COUNTER_RECORD_ID
    /\ callCurrent' = [callCurrent EXCEPT ![c] = currentIdOf(counterFields)]
    /\ callSeen' = [callSeen EXCEPT ![c] = Len(counterLog)]
    /\ callPc' = [callPc EXCEPT ![c] = "write"]
    /\ UNCHANGED <<counterFields, counterFields0, callReturn, counterLog>>
    /\ UNCHANGED notCounterVars

\* getRecord('counter') throws: logged and rethrown
readCounterFails(c) ==
    /\ callPc[c] = "idle"
    /\ callPc' = [callPc EXCEPT ![c] = "thrown"]
    /\ UNCHANGED <<counterFields, counterFields0, callCurrent, callSeen, callReturn,
                   counterLog>>
    /\ UNCHANGED notCounterVars

\* await updateRecord(null, { task_attachment_id_counter: nextId }, 'counter');
\* return nextId
writeCounter(c) ==
    /\ callPc[c] = "write"
    /\ targetId("counter", "null") = COUNTER_RECORD_ID
    /\ counterFields' = storeUpdate(counterFields, CounterField :> nextIdOf(c))
    /\ callReturn' = [callReturn EXCEPT ![c] = nextIdOf(c)]
    /\ counterLog' = Append(counterLog, c)
    /\ callPc' = [callPc EXCEPT ![c] = "returned"]
    /\ UNCHANGED <<counterFields0, callCurrent, callSeen>>
    /\ UNCHANGED notCounterVars

\* updateRecord throws: logged and rethrown
writeCounterFails(c) ==
    /\ callPc[c] = "write"
    /\ callPc' = [callPc EXCEPT ![c] = "thrown"]
    /\ UNCHANGED <<counterFields, counterFields0, callCurrent, callSeen, callReturn,
                   counterLog>>
    /\ UNCHANGED notCounterVars

\* the counter values the record can hold before any call
InitialCounters == {0, 1, 7, 41}

InitCounter ==
    /\ counterFields \in {<<>>} \cup {(CounterField :> v) : v \in InitialCounters}
    /\ counterFields0 = counterFields
    /\ callPc = [c \in Calls |-> "idle"]
    /\ callCurrent = [c \in Calls |-> 0]
    /\ callSeen = [c \in Calls |-> 0]
    /\ callReturn = [c \in Calls |-> 0]
    /\ counterLog = <<>>

NextCounter ==
    \/ \E c \in Calls : readCounter(c)
    \/ \E c \in Calls : readCounterFails(c)
    \/ \E c \in Calls : writeCounter(c)
    \/ \E c \in Calls : writeCounterFails(c)

----------------------------------------------------------------------------
(* Single-record calls: getRecord and updateRecord.                         *)

\* COUNTER_RECORD_ID of src/airtableService.js: an environment variable
LEGACY_COUNTER_RECORD_ID == "env:AIRTABLE_TABLE_COUNTER_ID"

\* const id = tableName === 'counter' ? COUNTER_RECORD_ID : recordId
\* in src/airtableService.js
targetIdLegacy(name, recordId) ==
    IF name = "counter" THEN LEGACY_COUNTER_RECORD_ID ELSE recordId

\* the record id the running adapter copy targets
resolvedId(name, recordId) ==
    IF svcModule = "part_000" THEN targetId(name, recordId)
    ELSE targetIdLegacy(name, recordId)

\* the names getTableName has a case for, in either copy
RegisteredNames ==
    {"counter", "actions", "activities", "tasks", "collaborators", "task_attachments",
     "task_checklists", "task_chat", "task_forms", "task_forms_fields",
     "task_forms_submissions", "task_groups", "informational_pages", "image_assets"}

\* names no copy has a case for: the main table's own name, a different
\* spelling of a registered one, the empty string
OtherNames == {"projects", "Tasks", ""}

TableNames == RegisteredNames \cup OtherNames

\* a caller that passes no id (getRecord('counter')) passes undefined
NoRecordId == "undefined"
RecordIds == {"recA", COUNTER_RECORD_ID, NoRecordId}

\* what is remembered of a call once the next one starts
NoPrev == [name |-> "", table |-> "", id |-> ""]

\* getRecord(tableName, recordId): table and id are computed, then
\* base(table).find(id) is awaited
getRecord(name, recordId) ==
    /\ singlePc \in {"idle", "returned", "thrown"}
    /\ singlePrev' = IF singlePc = "idle" THEN NoPrev
                     ELSE [name |-> singleTableName, table |-> singleTable, id |-> singleId]
    /\ singleOp' = "get"
    /\ singleTableName' = name
    /\ singleRecordId' = recordId
    /\ singleTable' = resolvedTable(name)
    /\ singleId' = resolvedId(name, recordId)
    /\ singleReturn' = ""
    /\ singleError' = ""
    /\ singlePc' = "calling"
    /\ UNCHANGED notSingleVars

\* updateRecord(recordId, fields, tableName): table and id are computed, then
\* base(table).update(id, fields) is awaited
updateRecord(recordId, name) ==
    /\ singlePc \in {"idle", "returned", "thrown"}
    /\ singlePrev' = IF singlePc = "idle" THEN NoPrev
                     ELSE [name |-> singleTableName, table |-> singleTable, id |-> singleId]
    /\ singleOp' = "update"
    /\ singleTableName' = name
    /\ singleRecordId' = recordId
    /\ singleTable' = resolvedTable(name)
    /\ singleId' = resolvedId(name, recordId)
    /\ singleReturn' = ""
    /\ singleError' = ""
    /\ singlePc' = "calling"
    /\ UNCHANGED notSingleVars

\* the store answers with the record asked for: return { id: record.id, ... }
singleCallSucceedsOne ==
    /\ singlePc = "calling"
    /\ singleReturn' = singleId
    /\ singlePc' = "returned"
    /\ UNCHANGED <<singleOp, singleTableName, singleRecordId, singleTable, singleId,
                   singlePrev, singleError>>
    /\ UNCHANGED notSingleVars

\* what base(table).find / update rejects with: the base holds no record of
\* that id, or the store cannot be reached
StoreErrors == {"NOT_FOUND", "SERVICE_UNAVAILABLE"}

\* the store refuses (no such record, no such table, ...): logged and rethrown
singleCallFailsOne(error) ==
    /\ singlePc = "calling"
    /\ singleError' = error
    /\ singlePc' = "thrown"
    /\ UNCHANGED <<singleOp, singleTableName, singleRecordId, singleTable, singleId,
                   singleReturn, singlePrev>>
    /\ UNCHANGED notSingleVars

InitSingle ==
    /\ singlePc = "idle"
    /\ singleOp = "none"
    /\ singleTableName = ""
    /\ singleRecordId = ""
    /\ singleTable = ""
    /\ singleId = ""
    /\ singleReturn = ""
    /\ singlePrev = NoPrev
    /\ singleError = ""

NextSingle ==
    \/ \E name \in TableNames, recordId \in RecordIds : getRecord(name, recordId)
    \/ \E name \in TableNames, recordId \in RecordIds : updateRecord(recordId, name)
    \/ singleCallSucceedsOne
    \/ \E error \in StoreErrors : singleCallFailsOne(error)

----------------------------------------------------------------------------
(* Content held as an attachment: POST /api/save-content-attachment, the    *)
(* content branch of PATCH /api/info-pages/:pageId, GET                     *)
(* /api/get-content-attachment and GET /api/get-content-hybrid.  Names and  *)
(* texts are sequences of characters.                                       *)

tasksChars == <<"t", "a", "s", "k", "s">>
infoPagesChars ==
    <<"i", "n", "f", "o", "r", "m", "a", "t", "i", "o", "n", "a", "l", "_",
      "p", "a", "g", "e", "s">>
notesChars == <<"N", "o", "t", "e", "s">>
pageContentChars == <<"p", "a", "g", "e", "C", "o", "n", "t", "e", "n", "t">>
pageTitleChars == <<"p", "a", "g", "e", "T", "i", "t", "l", "e">>
iconChars == <<"i", "c", "o", "n">>
rec1Chars == <<"r", "e", "c", "1">>
rec2Chars == <<"r", "e", "c", "2">>

\* the decimal digits of a non-negative number: String(n)
RECURSIVE ToDigits(_)
ToDigits(n) ==
    IF n < 10 THEN <<Digits[n + 1]>>
    ELSE ToDigits(n \div 10) \o <<Digits[(n % 10) + 1]>>

\* a content file name that differs from one save to the next
generateContentFileNameCounted(table, recordId, fieldName) ==
    <<"c", "o", "n", "t", "e", "n", "t", "-">> \o table \o <<"-">> \o recordId
        \o <<"-">> \o fieldName \o <<"-">> \o ToDigits(ctCount)
        \o <<".", "j", "s", "o", "n">>

\* `content-${tableName}-${recordId}-${fieldName}.json`
generateContentFileName(table, recordId, fieldName) ==
    <<"c", "o", "n", "t", "e", "n", "t", "-">> \o table \o <<"-">> \o recordId
        \o <<"-">> \o fieldName \o <<".", "j", "s", "o", "n">>

\* Date.now() + '-' + req.file.originalname, character by character
uploadFileName(now, originalname) == ToDigits(now) \o <<"-">> \o originalname

\* JSON.stringify of a string without characters to escape
JsonStringify(chars) == <<"\"">> \o chars \o <<"\"">>

\* field values: an attachment list, or a plain text
ListValue(items) == [items |-> items, kind |-> "list", text |-> <<>>]
TextValue(chars) == [items |-> <<>>, kind |-> "text", text |-> chars]
\* record.fields[fieldName] of a field the record does not carry: undefined
Undefined == [items |-> <<>>, kind |-> "undefined", text |-> <<>>]
\* content: null
Null == [items |-> <<>>, kind |-> "null", text |-> <<>>]
\* the record has not been read
NotRead == [items |-> <<>>, kind |-> "unread", text |-> <<>>]

\* { url: publicUrl, filename: fileName }
contentAttachment(fileName) == [url |-> publicUrl(fileName), filename |-> fileName]

\* the object a public URL of the bucket names
objectOf(url) == url[3]

\* record.fields[fieldName]
fieldValue(fields, triple) == IF triple \in DOMAIN fields THEN fields[triple] ELSE Undefined

\* JavaScript truthiness of a field value: undefined, null and '' are falsy,
\* every array (the empty one too) and every other string is truthy
truthy(value) ==
    \/ value.kind = "list"
    \/ value.kind = "text" /\ value.text # <<>>

\* value.length of an array or a string
lengthOf(value) == IF value.kind = "list" THEN Len(value.items) ELSE Len(value.text)

\* attachments[0].url: of an array's first entry its url; a string's first
\* entry is a character, which has no url
NoUrl == <<"undefined">>
firstUrlOf(value) ==
    IF value.kind = "list" /\ "url" \in DOMAIN value.items[1]
    THEN value.items[1].url ELSE NoUrl

\* attachments[0].filename
NoFilename == <<"undefined">>
firstFilenameOf(value) ==
    IF value.kind = "list" /\ "filename" \in DOMAIN value.items[1]
    THEN value.items[1].filename ELSE NoFilename

\* base(table).update(id, fields) on the record of the request: the fields of
\* the payload are overwritten, every other field is kept
applyPayload(fields, payload) ==
    [k \in DOMAIN fields \cup DOMAIN payload |->
        IF k \in DOMAIN payload THEN payload[k] ELSE fields[k]]

\* the bucket after an object write: the name holds the new text
putObject(bucket, name, text) ==
    [n \in DOMAIN bucket \cup {name} |-> IF n = name THEN text ELSE bucket[n]]

Triples ==
    {<<tasksChars, rec1Chars, notesChars>>,
     <<infoPagesChars, rec2Chars, pageContentChars>>}
\* the bodies of the save requests: tableName, recordId, fieldName, content
SaveBodies ==
    {<<tasksChars, rec1Chars, notesChars, <<"A">> >>,
     <<tasksChars, rec1Chars, notesChars, <<"B">> >>,
     <<infoPagesChars, rec2Chars, pageContentChars, <<"A">> >>,
     <<tasksChars, rec1Chars, notesChars, <<>> >>,
     <<tasksChars, <<>>, notesChars, <<"A">> >>}
\* the bodies of the info-page requests: the fields given, and the content
PageBodies ==
    {<<{}, <<>> >>, <<{"icon"}, <<>> >>, <<{"title", "icon"}, <<>> >>,
     <<{"content"}, <<>> >>, <<{"content"}, <<"A">> >>,
     <<{"title", "content"}, <<>> >>}
\* Date.now() as the upload requests see it
UploadTimes == {1}
\* a request without a content
NoContent == <<>>
\* a request without a file
NoUpload == [originalname |-> <<>>, blob |-> <<>>]
\* no response of fetch yet
NoResponse == [ok |-> FALSE, text |-> <<>>]
\* the uploaded file's name: it is spelt like a content file
OriginalNames ==
    {<<"c", "o", "n", "t", "e", "n", "t", "-">> \o tasksChars \o <<"-">> \o rec1Chars
         \o <<"-">> \o notesChars \o <<".", "j", "s", "o", "n">>}

\* the request handlers that can be in flight at one time, in the order in
\* which a new request takes a free one
CtOrder == <<"q1", "q2">>
CtRequests == {CtOrder[k] : k \in 1..Len(CtOrder)}

\* no handler is running for r: none has started, or the last one has answered
ctFree(r) == ctPc[r] \in {"idle", "done"}

\* the handler a request that arrives now runs in: the first free one
ctNext ==
    CtOrder[CHOOSE k \in 1..Len(CtOrder) :
                ctFree(CtOrder[k]) /\ \A j \in 1..(k - 1) : ~ctFree(CtOrder[j])]

\* the locals of a handler as its request finds them
newRequest(r, route, triple, content, file) ==
    /\ ctFree(r)
    /\ ctStarted < MaxRequests
    /\ ctStarted' = ctStarted + 1
    /\ ctRoute' = [ctRoute EXCEPT ![r] = route]
    /\ ctTriple' = [ctTriple EXCEPT ![r] = triple]
    /\ ctContent' = [ctContent EXCEPT ![r] = content]
    /\ ctFile' = [ctFile EXCEPT ![r] = file]
    /\ ctRead' = [ctRead EXCEPT ![r] = NotRead]
    /\ ctFetched' = [ctFetched EXCEPT ![r] = <<>>]
    /\ ctResponse' = [ctResponse EXCEPT ![r] = NoResponse]

\* res.status(status).json(body)
answer(r, status, body) ==
    /\ ctStatus' = [ctStatus EXCEPT ![r] = status]
    /\ ctBody' = [ctBody EXCEPT ![r] = body]
    /\ ctPc' = [ctPc EXCEPT ![r] = "done"]

\* the handler comes to its first await
reaches(r, pc) ==
    /\ ctPc' = [ctPc EXCEPT ![r] = pc]
    /\ ctStatus' = [ctStatus EXCEPT ![r] = 0]
    /\ ctBody' = [ctBody EXCEPT ![r] = <<>>]

\* the handler goes from one await to the next
goesOn(r, pc) ==
    /\ ctPc' = [ctPc EXCEPT ![r] = pc]
    /\ UNCHANGED <<ctStatus, ctBody>>

\* error.message of a rejected external call
ErrorMessages == {"boom"}
\* a response of fetch that is not ok
NotOkResponses == {[status |-> 404, statusText |-> "Not Found"]}

\* the body of the 500 a route's catch answers: the save, get and hybrid
\* routes add details: error.message, the info-page route does not, the
\* upload route puts the message into its error text, the replace route
\* answers the message alone
errorBody(route, message) ==
    CASE route = "save" ->
           [error |-> "Failed to save content attachment", details |-> message]
      [] route = "patch" -> [error |-> "Failed to update info page"]
      [] route = "get" ->
           [error |-> "Failed to fetch content attachment", details |-> message]
      [] route = "hybrid" ->
           [error |-> "Failed to fetch hybrid content", details |-> message]
      [] route = "replace" -> [error |-> message]
      [] OTHER -> [error |-> <<"Failed to update Airtable record: ", message>>]

\* new Error(`Failed to fetch attachment: ${response.status} ${response.statusText}`)
notOkMessage(response) ==
    <<"Failed to fetch attachment: ", response.status, " ", response.statusText>>

\* POST /api/save-content-attachment: the body's four fields are checked, the
\* file is named, and file.save is awaited
saveContentAttachment(table, recordId, fieldName, content) ==
    /\ \E q \in CtRequests : ctFree(q)
    /\ LET r == ctNext
       IN  /\ newRequest(r, "save", <<table, recordId, fieldName>>, content, NoUpload)
           /\ ctPayload' = [ctPayload EXCEPT ![r] = <<>>]
           /\ IF recordId = <<>> \/ table = <<>> \/ fieldName = <<>> \/ content = <<>>
              THEN answer(r, 400, [error |-> "Missing required fields: recordId, tableName, fieldName, content"])
              ELSE reaches(r, "saving")
    /\ UNCHANGED <<ctBucket, ctFields, ctWritten, ctLast, ctCount>>
    /\ UNCHANGED notContentVars

\* the fieldsToUpdate of PATCH /api/info-pages/:pageId before its content
\* branch: title and icon go in as they are when they are given
titleAndIcon(pageId, hasTitle, hasIcon) ==
    [t \in {u \in {<<infoPagesChars, pageId, pageTitleChars>>,
                    <<infoPagesChars, pageId, iconChars>>} :
                \/ u[3] = pageTitleChars /\ hasTitle
                \/ u[3] = iconChars /\ hasIcon} |->
        IF t[3] = pageTitleChars THEN TextValue(<<"T">>) ELSE TextValue(<<"x">>)]

\* PATCH /api/info-pages/:pageId: title !== undefined and icon !== undefined
\* go into the payload; content !== undefined (the empty text too) is saved as
\* a file first; with none of the three the answer is 400
patchInfoPage(pageId, hasTitle, hasIcon, hasContent, content) ==
    /\ \E q \in CtRequests : ctFree(q)
    /\ LET r == ctNext
       IN  /\ newRequest(r, "patch", <<infoPagesChars, pageId, pageContentChars>>,
                         content, NoUpload)
           /\ ctPayload' = [ctPayload EXCEPT ![r] = titleAndIcon(pageId, hasTitle, hasIcon)]
           /\ IF hasContent
              THEN reaches(r, "saving")
              ELSE IF ~hasTitle /\ ~hasIcon
              THEN answer(r, 400, [error |-> "No valid fields to update were provided."])
              ELSE reaches(r, "updating")
    /\ UNCHANGED <<ctBucket, ctFields, ctWritten, ctLast, ctCount>>
    /\ UNCHANGED notContentVars

\* POST /api/upload/:tableName/:recordId/:fieldName: without a file the answer
\* is 400; with one the blob is named and its write stream is ended
upload(table, recordId, fieldName, now, hasFile, originalname) ==
    /\ \E q \in CtRequests : ctFree(q)
    /\ LET r == ctNext
       IN  /\ newRequest(r, "upload", <<table, recordId, fieldName>>, NoContent,
                         IF hasFile
                         THEN [originalname |-> originalname,
                               blob |-> uploadFileName(now, originalname)]
                         ELSE NoUpload)
           /\ ctPayload' = [ctPayload EXCEPT ![r] = <<>>]
           /\ IF ~hasFile
              THEN answer(r, 400, [text |-> "No file uploaded."])
              ELSE reaches(r, "storing")
    /\ UNCHANGED <<ctBucket, ctFields, ctWritten, ctLast, ctCount>>
    /\ UNCHANGED notContentVars

\* POST /api/replace/:tableName/:recordId/:fieldName: without a file the answer
\* is 400; with one the blob is named and its write stream is ended
replace(table, recordId, fieldName, now, hasFile, originalname) ==
    /\ \E q \in CtRequests : ctFree(q)
    /\ LET r == ctNext
       IN  /\ newRequest(r, "replace", <<table, recordId, fieldName>>, NoContent,
                         IF hasFile
                         THEN [originalname |-> originalname,
                               blob |-> uploadFileName(now, originalname)]
                         ELSE NoUpload)
           /\ ctPayload' = [ctPayload EXCEPT ![r] = <<>>]
           /\ IF ~hasFile
              THEN answer(r, 400, [text |-> "No file uploaded."])
              ELSE reaches(r, "storing")
    /\ UNCHANGED <<ctBucket, ctFields, ctWritten, ctLast, ctCount>>
    /\ UNCHANGED notContentVars

\* const fileName = generateContentFileName(tableName, recordId, fieldName)
fileNameOf(triple) == generateContentFileName(triple[1], triple[2], triple[3])

\* the text handed to file.save: JSON.stringify(content) in the save route,
\* content itself in the info-page route
savedText(route, content) == IF route = "save" THEN JsonStringify(content) ELSE content

\* file.save resolves: the object holds the text; the attachment goes into the
\* payload and updateRecord is awaited
saveLands(r) ==
    /\ ctPc[r] = "saving"
    /\ ctBucket' = putObject(ctBucket, fileNameOf(ctTriple[r]),
                             savedText(ctRoute[r], ctContent[r]))
    /\ ctWritten' = ctWritten \cup {[name |-> fileNameOf(ctTriple[r]),
                                     triple |-> ctTriple[r]]}
    /\ ctLast' = putObject(ctLast, ctTriple[r], savedText(ctRoute[r], ctContent[r]))
    /\ ctCount' = ctCount + 1
    /\ ctPayload' = [ctPayload EXCEPT ![r] =
                        applyPayload(@, ctTriple[r] :>
                            ListValue(<<contentAttachment(fileNameOf(ctTriple[r]))>>))]
    /\ goesOn(r, "updating")
    /\ UNCHANGED <<ctFields, ctStarted, ctRoute, ctTriple, ctContent, ctFile, ctRead, ctFetched,
                   ctResponse>>
    /\ UNCHANGED notContentVars

\* a save that goes on to updateRecord although file.save rejected
saveFailsGoesOn(r, message) ==
    /\ ctPc[r] = "saving"
    /\ ctPayload' = [ctPayload EXCEPT ![r] =
                        applyPayload(@, ctTriple[r] :>
                            ListValue(<<contentAttachment(fileNameOf(ctTriple[r]))>>))]
    /\ goesOn(r, "updating")
    /\ UNCHANGED <<ctBucket, ctFields, ctWritten, ctLast, ctCount, ctStarted, ctRoute,
                   ctTriple, ctContent, ctFile, ctRead, ctFetched, ctResponse>>
    /\ UNCHANGED notContentVars

\* file.save rejects: the handler's catch answers 500
saveFails(r, message) ==
    /\ ctPc[r] = "saving"
    /\ answer(r, 500, errorBody(ctRoute[r], message))
    /\ UNCHANGED <<ctBucket, ctFields, ctWritten, ctLast, ctCount, ctStarted, ctRoute,
                   ctTriple,
                   ctContent, ctFile, ctPayload, ctRead, ctFetched, ctResponse>>
    /\ UNCHANGED notContentVars

\* the write stream of an upload or a replace finishes: the blob is in the
\* bucket; the 'finish' listener of the upload route awaits getRecord, that of
\* the replace route awaits updateRecord with [newAttachment]
uploadLands(r) ==
    /\ ctPc[r] = "storing"
    /\ ctBucket' = putObject(ctBucket, ctFile[r].blob, <<"f">>)
    /\ ctWritten' = ctWritten \cup {[name |-> ctFile[r].blob, triple |-> <<>>]}
    /\ ctCount' = ctCount + 1
    /\ IF ctRoute[r] = "replace"
       THEN /\ ctPayload' = [ctPayload EXCEPT ![r] =
                   ctTriple[r] :> ListValue(<<[url |-> publicUrl(ctFile[r].blob),
                                               filename |-> ctFile[r].originalname]>>)]
            /\ goesOn(r, "updating")
       ELSE /\ UNCHANGED ctPayload
            /\ goesOn(r, "reading")
    /\ UNCHANGED <<ctFields, ctLast, ctStarted, ctRoute, ctTriple, ctContent, ctFile,
                   ctRead, ctFetched, ctResponse>>
    /\ UNCHANGED notContentVars

\* the write stream of an upload or a replace emits 'error': the listener
\* answers 500, the upload route with `GCS Upload Stream Error: ${err.message}`,
\* the replace route with err.message
uploadStreamError(r, message) ==
    /\ ctPc[r] = "storing"
    /\ answer(r, 500, [error |-> IF ctRoute[r] = "replace" THEN message
                                  ELSE <<"GCS Upload Stream Error: ", message>>])
    /\ UNCHANGED <<ctBucket, ctFields, ctWritten, ctLast, ctCount, ctStarted, ctRoute,
                   ctTriple,
                   ctContent, ctFile, ctPayload, ctRead, ctFetched, ctResponse>>
    /\ UNCHANGED notContentVars

\* the record of a table and an id as the store returns it: its fields by name
recordFields(fields, table, recordId) ==
    [f \in {t[3] : t \in {u \in DOMAIN fields : u[1] = table /\ u[2] = recordId}} |->
        fields[<<table, recordId, f>>]]

\* updateRecord resolves: the record carries the payload.  The save route
\* answers the file's place, the info-page route the record as updateRecord
\* returned it ({ id, fields }), the upload route updatedRecord.fields[fieldName]
recordUpdated(r) ==
    /\ ctPc[r] = "updating"
    /\ ctFields' = applyPayload(ctFields, ctPayload[r])
    /\ answer(r, 200,
              CASE ctRoute[r] = "save" ->
                     [url |-> publicUrl(fileNameOf(ctTriple[r])),
                      filename |-> fileNameOf(ctTriple[r]), success |-> TRUE]
                [] ctRoute[r] = "patch" ->
                     [fields |-> recordFields(applyPayload(ctFields, ctPayload[r]), ctTriple[r][1], ctTriple[r][2]),
                      id |-> ctTriple[r][2]]
                [] OTHER -> fieldValue(applyPayload(ctFields, ctPayload[r]), ctTriple[r]))
    /\ UNCHANGED <<ctBucket, ctWritten, ctLast, ctCount, ctStarted, ctRoute,
                   ctTriple, ctContent,
                   ctFile, ctPayload, ctRead, ctFetched, ctResponse>>
    /\ UNCHANGED notContentVars

\* updateRecord rejects: the handler's catch answers 500
recordUpdateFails(r, message) ==
    /\ ctPc[r] = "updating"
    /\ answer(r, 500, errorBody(ctRoute[r], message))
    /\ UNCHANGED <<ctBucket, ctFields, ctWritten, ctLast, ctCount, ctStarted, ctRoute,
                   ctTriple,
                   ctContent, ctFile, ctPayload, ctRead, ctFetched, ctResponse>>
    /\ UNCHANGED notContentVars

\* GET /api/get-content-attachment and GET /api/get-content-hybrid: entry;
\* getRecord is awaited
getContent(route, triple) ==
    /\ \E q \in CtRequests : ctFree(q)
    /\ LET r == ctNext
       IN  /\ newRequest(r, route, triple, NoContent, NoUpload)
           /\ ctPayload' = [ctPayload EXCEPT ![r] = <<>>]
           /\ reaches(r, "reading")
    /\ UNCHANGED <<ctBucket, ctFields, ctWritten, ctLast, ctCount>>
    /\ UNCHANGED notContentVars

\* a hybrid route without its fallback
hybridFallbackNone(read) == [content |-> Null, source |-> "none"]

\* the hybrid route's last part: fallbackFieldName is fieldName in every case
\* of its switch; fallbackContent = record.fields[fallbackFieldName]
hybridFallback(read) ==
    IF truthy(read) THEN [content |-> read, source |-> "fallback"]
    ELSE [content |-> Null, source |-> "none"]

\* [...existingAttachments]: the entries of a list, the characters of a text
spread(value) ==
    IF value.kind = "list" THEN value.items
    ELSE [k \in 1..Len(value.text) |-> [char |-> value.text[k]]]

\* getRecord resolves.  In the upload route existingAttachments =
\* currentRecord.fields[fieldName] || [], the new attachment is put after
\* them and updateRecord is awaited.  In the get routes attachments =
\* record.fields[fieldName]: without an attachment the get route answers
\* { content: null } and the hybrid route answers from its fallback; with one,
\* fetch(attachments[0].url) is awaited
recordRead(r) ==
    /\ ctPc[r] = "reading"
    /\ LET attachments == fieldValue(ctFields, ctTriple[r])
       IN  /\ ctRead' = [ctRead EXCEPT ![r] = attachments]
           /\ IF ctRoute[r] = "upload"
              THEN /\ ctPayload' = [ctPayload EXCEPT ![r] =
                          ctTriple[r] :> ListValue(
                              (IF truthy(attachments) THEN spread(attachments) ELSE <<>>)
                              \o <<[url |-> publicUrl(ctFile[r].blob),
                                    filename |-> ctFile[r].originalname]>>)]
                   /\ goesOn(r, "updating")
              ELSE /\ UNCHANGED ctPayload
                   /\ IF truthy(attachments) /\ lengthOf(attachments) > 0
                      THEN goesOn(r, "fetching")
                      ELSE IF ctRoute[r] = "get"
                      THEN answer(r, 200, [content |-> Null])
                      ELSE answer(r, 200, hybridFallback(attachments))
    /\ UNCHANGED <<ctBucket, ctFields, ctWritten, ctLast, ctCount, ctStarted, ctRoute,
                   ctTriple,
                   ctContent, ctFile, ctFetched, ctResponse>>
    /\ UNCHANGED notContentVars

\* getRecord rejects: the handler's catch answers 500
recordReadFails(r, message) ==
    /\ ctPc[r] = "reading"
    /\ answer(r, 500, errorBody(ctRoute[r], message))
    /\ UNCHANGED <<ctBucket, ctFields, ctWritten, ctLast, ctCount, ctStarted, ctRoute,
                   ctTriple,
                   ctContent, ctFile, ctPayload, ctRead, ctFetched, ctResponse>>
    /\ UNCHANGED notContentVars

\* fetch resolves with response.ok: the response carries the text the object
\* holds; response.text() is awaited
fetchOk(r) ==
    /\ ctPc[r] = "fetching"
    /\ firstUrlOf(ctRead[r]) # NoUrl
    /\ objectOf(firstUrlOf(ctRead[r])) \in DOMAIN ctBucket
    /\ ctFetched' = [ctFetched EXCEPT ![r] = Append(@, firstUrlOf(ctRead[r]))]
    /\ ctResponse' = [ctResponse EXCEPT ![r] =
                         [ok |-> TRUE, text |-> ctBucket[objectOf(firstUrlOf(ctRead[r]))]]]
    /\ goesOn(r, "texting")
    /\ UNCHANGED <<ctBucket, ctFields, ctWritten, ctLast, ctCount, ctStarted, ctRoute,
                   ctTriple,
                   ctContent, ctFile, ctPayload, ctRead>>
    /\ UNCHANGED notContentVars

\* fetch rejects (no url to parse, no connection): the get route's catch
\* answers 500; the hybrid route's inner catch goes on to the fallback
fetchFails(r, message) ==
    /\ ctPc[r] = "fetching"
    /\ ctFetched' = [ctFetched EXCEPT ![r] =
                        IF firstUrlOf(ctRead[r]) = NoUrl THEN @
                        ELSE Append(@, firstUrlOf(ctRead[r]))]
    /\ IF ctRoute[r] = "get"
       THEN answer(r, 500, errorBody("get", message))
       ELSE answer(r, 200, hybridFallback(ctRead[r]))
    /\ UNCHANGED <<ctBucket, ctFields, ctWritten, ctLast, ctCount, ctStarted, ctRoute,
                   ctTriple,
                   ctContent, ctFile, ctPayload, ctRead, ctResponse>>
    /\ UNCHANGED notContentVars

\* fetch resolves without response.ok (no such object, no access): the get
\* route throws to its catch, 500; the hybrid route goes on to its fallback
fetchNotOk(r, response) ==
    /\ ctPc[r] = "fetching"
    /\ firstUrlOf(ctRead[r]) # NoUrl
    /\ ctFetched' = [ctFetched EXCEPT ![r] = Append(@, firstUrlOf(ctRead[r]))]
    /\ IF ctRoute[r] = "get"
       THEN answer(r, 500, errorBody("get", notOkMessage(response)))
       ELSE answer(r, 200, hybridFallback(ctRead[r]))
    /\ UNCHANGED <<ctBucket, ctFields, ctWritten, ctLast, ctCount, ctStarted, ctRoute,
                   ctTriple,
                   ctContent, ctFile, ctPayload, ctRead, ctResponse>>
    /\ UNCHANGED notContentVars

\* response.text() resolves: the text is the content
textRead(r) ==
    /\ ctPc[r] = "texting"
    /\ answer(r, 200, IF ctRoute[r] = "get"
                      THEN [url |-> firstUrlOf(ctRead[r]),
                            filename |-> firstFilenameOf(ctRead[r]),
                            content |-> TextValue(ctResponse[r].text)]
                      ELSE [filename |-> firstFilenameOf(ctRead[r]),
                            content |-> TextValue(ctResponse[r].text),
                            source |-> "attachment"])
    /\ UNCHANGED <<ctBucket, ctFields, ctWritten, ctLast, ctCount, ctStarted, ctRoute,
                   ctTriple,
                   ctContent, ctFile, ctPayload, ctRead, ctFetched, ctResponse>>
    /\ UNCHANGED notContentVars

\* response.text() rejects (the body breaks off): the get route's catch
\* answers 500; the hybrid route's inner catch goes on to the fallback
textFails(r, message) ==
    /\ ctPc[r] = "texting"
    /\ IF ctRoute[r] = "get"
       THEN answer(r, 500, errorBody("get", message))
       ELSE answer(r, 200, hybridFallback(ctRead[r]))
    /\ UNCHANGED <<ctBucket, ctFields, ctWritten, ctLast, ctCount, ctStarted, ctRoute,
                   ctTriple,
                   ctContent, ctFile, ctPayload, ctRead, ctFetched, ctResponse>>
    /\ UNCHANGED notContentVars

\* an attachment the record may hold before any request: a content file saved
\* earlier, and after it a file "b" uploaded when Date.now() was 0
PriorContentName ==
    <<"c", "o", "n", "t", "e", "n", "t", "-">> \o tasksChars \o <<"-">> \o rec1Chars
        \o <<"-">> \o notesChars \o <<".", "j", "s", "o", "n">>
PriorContentAttachment == contentAttachment(PriorContentName)
SecondAttachment ==
    [url |-> publicUrl(uploadFileName(0, <<"b">>)), filename |-> <<"b">>]

\* what the field of the first triple may hold before any request
PriorFieldValues ==
    {ListValue(<<>>), ListValue(<<PriorContentAttachment, SecondAttachment>>),
     TextValue(<<"o", "l", "d">>), TextValue(<<>>)}

InitContent ==
    /\ ctBucket = (PriorContentName :> <<"P">>)
    /\ ctFields \in {<<>>} \cup
          {(<<tasksChars, rec1Chars, notesChars>> :> v) : v \in PriorFieldValues}
    /\ ctWritten = {}
    /\ ctLast = <<>>
    /\ ctCount = 0
    /\ ctStarted = 0
    /\ ctPc = [r \in CtRequests |-> "idle"]
    /\ ctRoute = [r \in CtRequests |-> "none"]
    /\ ctTriple = [r \in CtRequests |-> <<tasksChars, rec1Chars, notesChars>>]
    /\ ctContent = [r \in CtRequests |-> NoContent]
    /\ ctFile = [r \in CtRequests |-> NoUpload]
    /\ ctPayload = [r \in CtRequests |-> <<>>]
    /\ ctRead = [r \in CtRequests |-> NotRead]
    /\ ctFetched = [r \in CtRequests |-> <<>>]
    /\ ctResponse = [r \in CtRequests |-> NoResponse]
    /\ ctStatus = [r \in CtRequests |-> 0]
    /\ ctBody = [r \in CtRequests |-> <<>>]

RestContent ==
    /\ ctBucket = <<>>
    /\ ctFields = <<>>
    /\ ctWritten = {}
    /\ ctLast = <<>>
    /\ ctCount = 0
    /\ ctStarted = 0
    /\ ctPc = [r \in CtRequests |-> "idle"]
    /\ ctRoute = [r \in CtRequests |-> "none"]
    /\ ctTriple = [r \in CtRequests |-> <<tasksChars, rec1Chars, notesChars>>]
    /\ ctContent = [r \in CtRequests |-> NoContent]
    /\ ctFile = [r \in CtRequests |-> NoUpload]
    /\ ctPayload = [r \in CtRequests |-> <<>>]
    /\ ctRead = [r \in CtRequests |-> NotRead]
    /\ ctFetched = [r \in CtRequests |-> <<>>]
    /\ ctResponse = [r \in CtRequests |-> NoResponse]
    /\ ctStatus = [r \in CtRequests |-> 0]
    /\ ctBody = [r \in CtRequests |-> <<>>]

NextContent ==
    \/ \E body \in SaveBodies : saveContentAttachment(body[1], body[2], body[3], body[4])
    \/ \E body \in PageBodies :
          patchInfoPage(rec2Chars, "title" \in body[1], "icon" \in body[1],
                        "content" \in body[1], body[2])
    \/ \E now \in UploadTimes, hasFile \in BOOLEAN, originalname \in OriginalNames :
          upload(tasksChars, rec1Chars, notesChars, now, hasFile, originalname)
    \/ \E now \in UploadTimes, hasFile \in BOOLEAN, originalname \in OriginalNames :
          replace(tasksChars, rec1Chars, notesChars, now, hasFile, originalname)
    \/ \E r \in CtRequests : saveLands(r)
    \/ \E r \in CtRequests, message \in ErrorMessages : saveFails(r, message)
    \/ \E r \in CtRequests : uploadLands(r)
    \/ \E r \in CtRequests, message \in ErrorMessages : uploadStreamError(r, message)
    \/ \E r \in CtRequests : recordUpdated(r)
    \/ \E r \in CtRequests, message \in ErrorMessages : recordUpdateFails(r, message)
    \/ \E route \in {"get", "hybrid"}, triple \in Triples : getContent(route, triple)
    \/ \E r \in CtRequests : recordRead(r)
    \/ \E r \in CtRequests, message \in ErrorMessages : recordReadFails(r, message)
    \/ \E r \in CtRequests : fetchOk(r)
    \/ \E r \in CtRequests, message \in ErrorMessages : fetchFails(r, message)
    \/ \E r \in CtRequests, response \in NotOkResponses : fetchNotOk(r, response)
    \/ \E r \in CtRequests : textRead(r)
    \/ \E r \in CtRequests, message \in ErrorMessages : textFails(r, message)

----------------------------------------------------------------------------
(* The other HTTP routes of index.js: the record routes, the info-page     *)
(* routes, the image upload, the recaptcha check and the intro form.  A    *)
(* handler checks its request, then makes its external calls one after     *)
(* another; each call is awaited and may raise.                            *)

NoAssessment == [valid |-> FALSE, action |-> "", score |-> 0, obtained |-> FALSE]

\* the external calls that write
WriteCalls == {"store.create", "store.update", "store.destroy", "bucket.write"}

\* a request arrives: the handler's locals as it finds them
arrives(route, missing) ==
    /\ httpPc \in {"idle", "done"}
    /\ httpRoute' = route
    /\ httpMissing' = missing
    /\ httpCalls' = <<>>
    /\ httpFailed' = FALSE
    /\ httpWrites' = 0
    /\ httpAssessment' = NoAssessment

\* res.status(status).json(...)
responds(status) ==
    /\ httpStatus' = status
    /\ httpBody' = "json"
    /\ httpPc' = "done"
    /\ httpPlan' = <<>>

\* the handler goes on to its external calls; with none to make it answers
proceeds(plan, ok) ==
    /\ httpOk' = ok
    /\ IF plan = <<>>
       THEN responds(ok)
       ELSE /\ httpPlan' = plan
            /\ httpPc' = "calling"
            /\ httpStatus' = 0
            /\ httpBody' = "none"

\* the routes that make one read of the record store and answer with it
ReadRoutes ==
    {"GET /api/records", "GET /api/records/filter/:recordId/:tableName",
     "GET /api/records/:tableName/:recordId", "GET /api/tasks/incomplete/:email",
     "GET /api/collaborators", "GET /api/records/board/:projectId/:tableName",
     "GET /api/messages/:projectId/project_messages",
     "GET /api/authenticate/:projectName/:projectId", "GET /api/info-pages",
     "GET /api/info-pages/:pageId"}

\* a route of ReadRoutes: try { await airtableService....; res.json(...) }
getViaStore(route) ==
    /\ arrives(route, {})
    /\ httpExpected' = ""
    /\ proceeds(<<"store.read">>, 200)
    /\ UNCHANGED notHttpVars

\* GET /api/actions/incomplete: all actions, then all projects
getIncompleteActions ==
    /\ arrives("GET /api/actions/incomplete", {})
    /\ httpExpected' = ""
    /\ proceeds(<<"store.read", "store.read">>, 200)
    /\ UNCHANGED notHttpVars

\* GET /api/all/:tableName
getAllFromTable ==
    /\ arrives("GET /api/all/:tableName", {})
    /\ httpExpected' = ""
    /\ proceeds(<<"store.read">>, 200)
    /\ UNCHANGED notHttpVars

\* DELETE /api/info-pages/:pageId
deleteInfoPage ==
    /\ arrives("DELETE /api/info-pages/:pageId", {})
    /\ httpExpected' = ""
    /\ proceeds(<<"store.destroy">>, 200)
    /\ UNCHANGED notHttpVars

\* the pages a bulk write of n records is sent in
pagesOf(call, n) == [k \in 1..((n + PageSize - 1) \div PageSize) |-> call]

\* the lists a body can carry as recordsToCreate / recordsToUpdate, and what
\* it can carry as recordIds
ListKinds == {"missing", "empty", "one", "eleven"}
IdListKinds == {"missing", "notArray", "empty", "one"}
sizeOf(kind) == IF kind = "one" THEN 1 ELSE IF kind = "eleven" THEN 11 ELSE 0

\* POST /api/records: createRecords(recordsToCreate, tableName) without a check.
\* Without a list, createRecords raises a TypeError at recordsToCreate.map or at
\* processedRecords.length before any call, and the route's catch answers 500
postRecords(records) ==
    /\ arrives("POST /api/records", IF records = "missing" THEN {"recordsToCreate"} ELSE {})
    /\ httpExpected' = ""
    /\ IF records = "missing"
       THEN /\ responds(500)
            /\ httpOk' = 201
       ELSE proceeds(pagesOf("store.create", sizeOf(records)), 201)
    /\ UNCHANGED notHttpVars

\* PATCH /api/records: updateMultipleRecords(recordsToUpdate, tableName) without
\* a check; without a list recordsToUpdate.length raises a TypeError
patchRecords(records) ==
    /\ arrives("PATCH /api/records", IF records = "missing" THEN {"recordsToUpdate"} ELSE {})
    /\ httpExpected' = ""
    /\ IF records = "missing"
       THEN /\ responds(500)
            /\ httpOk' = 200
       ELSE proceeds(pagesOf("store.update", sizeOf(records)), 200)
    /\ UNCHANGED notHttpVars

\* DELETE /api/records/:tableName: recordIds must be a non-empty array
deleteRecords(recordIds) ==
    /\ arrives("DELETE /api/records/:tableName",
               IF recordIds = "missing" THEN {"recordIds"} ELSE {})
    /\ httpExpected' = ""
    /\ IF recordIds \in {"missing", "notArray", "empty"}
       THEN /\ responds(400)
            /\ httpOk' = 200
       ELSE proceeds(<<"store.destroy">>, 200)
    /\ UNCHANGED notHttpVars

\* POST /api/records/by-ids: recordIds must be an array; getRecordsByIds
\* answers an empty one without a call
postByIds(recordIds) ==
    /\ arrives("POST /api/records/by-ids",
               IF recordIds = "missing" THEN {"recordIds"} ELSE {})
    /\ httpExpected' = ""
    /\ IF recordIds \in {"missing", "notArray"}
       THEN /\ responds(400)
            /\ httpOk' = 200
       ELSE proceeds(IF recordIds = "empty" THEN <<>> ELSE <<"store.read">>, 200)
    /\ UNCHANGED notHttpVars

\* PATCH /api/records/:tableName/:recordId: updateRecord(recordId, fields,
\* tableName) without a check
patchRecord(hasFields) ==
    /\ arrives("PATCH /api/records/:tableName/:recordId",
               IF hasFields THEN {} ELSE {"fields"})
    /\ httpExpected' = ""
    /\ proceeds(<<"store.update">>, 200)
    /\ UNCHANGED notHttpVars

\* POST /api/info-pages: a title that is missing, empty or blank is answered
\* 400; otherwise all pages are read and the new one is created
postInfoPage(title) ==
    /\ arrives("POST /api/info-pages", IF title = "ok" THEN {} ELSE {"title"})
    /\ httpExpected' = ""
    /\ IF title # "ok"
       THEN /\ responds(400)
            /\ httpOk' = 201
       ELSE proceeds(<<"store.read", "store.create">>, 201)
    /\ UNCHANGED notHttpVars

\* POST /api/upload-image: file, sourceTable and sourceRecordId are checked;
\* then the asset record is created, the blob written, the record updated
uploadImage(missing) ==
    /\ arrives("POST /api/upload-image", missing)
    /\ httpExpected' = ""
    /\ IF missing # {}
       THEN /\ responds(400)
            /\ httpOk' = 200
       ELSE proceeds(<<"store.create", "bucket.write", "store.update">>, 200)
    /\ UNCHANGED notHttpVars

\* POST /api/submit-intro-form: formData is read without a check; without it
\* formData.meetingDate raises a TypeError inside the try
submitIntroForm(hasFormData) ==
    /\ arrives("POST /api/submit-intro-form", IF hasFormData THEN {} ELSE {"formData"})
    /\ httpExpected' = ""
    /\ IF ~hasFormData
       THEN /\ responds(500)
            /\ httpOk' = 201
       ELSE proceeds(<<"store.create">>, 201)
    /\ UNCHANGED notHttpVars

\* a score at the threshold passes for one below it
scoreTooLowAtThreshold(score) == score <= ScoreThreshold

\* response.riskAnalysis.score < 0.5, scores counted in hundredths
scoreTooLow(score) == score < ScoreThreshold

\* POST /api/check-recaptcha: token, recaptchaKey and recaptchaAction are
\* checked, then the project id; then createAssessment is awaited
checkRecaptcha(missing, configured, expected) ==
    /\ arrives("POST /api/check-recaptcha", missing)
    /\ httpExpected' = expected
    /\ httpOk' = 200
    /\ IF missing # {}
       THEN responds(400)
       ELSE IF ~configured
       THEN responds(500)
       ELSE /\ httpPlan' = <<"scoring.createAssessment">>
            /\ httpPc' = "assessing"
            /\ httpStatus' = 0
            /\ httpBody' = "none"
    /\ UNCHANGED notHttpVars

\* createAssessment resolves: the token's validity, then its action, then the
\* score decide the answer
assessmentReturns(valid, action, score) ==
    /\ httpPc = "assessing"
    /\ httpCalls' = Append(httpCalls, Head(httpPlan))
    /\ httpAssessment' = [valid |-> valid, action |-> action, score |-> score,
                          obtained |-> TRUE]
    /\ IF ~valid THEN responds(400)
       ELSE IF action # httpExpected THEN responds(400)
       ELSE IF scoreTooLow(score) THEN responds(403)
       ELSE responds(200)
    /\ UNCHANGED <<httpRoute, httpMissing, httpOk, httpFailed, httpWrites, httpExpected>>
    /\ UNCHANGED notHttpVars

\* an awaited call of the record store or the bucket resolves; after the last
\* one the handler answers
callReturns ==
    /\ httpPc = "calling"
    /\ httpCalls' = Append(httpCalls, Head(httpPlan))
    /\ httpWrites' = IF Head(httpPlan) \in WriteCalls THEN httpWrites + 1 ELSE httpWrites
    /\ IF Tail(httpPlan) = <<>>
       THEN responds(httpOk)
       ELSE /\ httpPlan' = Tail(httpPlan)
            /\ UNCHANGED <<httpPc, httpStatus, httpBody>>
    /\ UNCHANGED <<httpRoute, httpMissing, httpOk, httpFailed, httpExpected, httpAssessment>>
    /\ UNCHANGED notHttpVars

\* what the catch of a route does with the error: res.status(500).json(...);
\* in GET /api/all/:tableName the body names tableName, a const of the try
\* block that the catch block cannot see: a ReferenceError is raised there
\* and nothing is sent
catchOf(route) == IF route = "GET /api/all/:tableName" THEN "throws" ELSE "json500"

\* an awaited external call raises: the handler's catch runs
callThrows ==
    /\ httpPc \in {"calling", "assessing"}
    /\ httpCalls' = Append(httpCalls, Head(httpPlan))
    /\ httpFailed' = TRUE
    /\ IF catchOf(httpRoute) = "json500"
       THEN responds(500)
       ELSE /\ httpPc' = "rejected"
            /\ httpPlan' = <<>>
            /\ UNCHANGED <<httpStatus, httpBody>>
    /\ UNCHANGED <<httpRoute, httpMissing, httpOk, httpWrites, httpExpected, httpAssessment>>
    /\ UNCHANGED notHttpVars

\* the scores an assessment can carry, in hundredths
Scores == {0, 49, 50, 51, 100}
Actions == {"submit", "login"}
RecaptchaFields == {"token", "recaptchaKey", "recaptchaAction"}
UploadImageFields == {"file", "sourceTable", "sourceRecordId"}

InitHttp ==
    /\ httpPc = "idle"
    /\ httpRoute = ""
    /\ httpMissing = {}
    /\ httpPlan = <<>>
    /\ httpOk = 0
    /\ httpCalls = <<>>
    /\ httpFailed = FALSE
    /\ httpWrites = 0
    /\ httpExpected = ""
    /\ httpAssessment = NoAssessment
    /\ httpStatus = 0
    /\ httpBody = "none"

RestHttp == InitHttp

NextHttp ==
    \/ \E route \in ReadRoutes : getViaStore(route)
    \/ getIncompleteActions
    \/ getAllFromTable
    \/ deleteInfoPage
    \/ \E records \in ListKinds : postRecords(records)
    \/ \E records \in ListKinds : patchRecords(records)
    \/ \E recordIds \in IdListKinds : deleteRecords(recordIds)
    \/ \E recordIds \in IdListKinds : postByIds(recordIds)
    \/ \E hasFields \in BOOLEAN : patchRecord(hasFields)
    \/ \E title \in {"missing", "blank", "ok"} : postInfoPage(title)
    \/ \E missing \in SUBSET UploadImageFields : uploadImage(missing)
    \/ \E hasFormData \in BOOLEAN : submitIntroForm(hasFormData)
    \/ \E missing \in SUBSET RecaptchaFields, configured \in BOOLEAN, expected \in Actions :
          checkRecaptcha(missing, configured, expected)
    \/ \E valid \in BOOLEAN, action \in Actions, score \in Scores :
          assessmentReturns(valid, action, score)
    \/ callReturns
    \/ callThrows

-----------------------------------------------------------------------------
(* Real-time event handlers (src/index.js, io.on('connection', ...)).  An   *)
(* event starts its handler when it arrives, whatever else is in flight;    *)
(* the handlers, of one connection or of several, interleave at their       *)
(* awaits.  Identifiers are character sequences, since sendMessage looks at *)
(* the first characters.                                                    *)

Conns == {"s1", "s2"}

rec1Id == <<"r", "e", "c", "1">>
displayId == <<"T", "1">>
projectRoomId == <<"r", "e", "c", "P">>
UndefinedId == <<>>

\* the ids a client joins or leaves as rooms
RoomIds == {displayId, projectRoomId}
\* taskId of a sendMessage payload; UndefinedId: the payload carries none
TaskIds == {rec1Id, displayId, UndefinedId}
ProjectIds == {projectRoomId}
\* what a client sends with markMessagesAsRead
ReadPayloads == {"none", "empty", "noTable", "ids"}
NoPayload == <<"-">>

recPrefix == <<"r", "e", "c">>

\* taskId.startsWith('rec')
startsWith(id, prefix) ==
    /\ Len(id) >= Len(prefix)
    /\ SubSeq(id, 1, Len(prefix)) = prefix

\* the handlers that can be in flight at one time, in the order in which an
\* event takes a free one
HandlerOrder == <<"h1", "h2">>
Handlers == {HandlerOrder[k] : k \in 1..Len(HandlerOrder)}

idleHandler == [pc |-> "idle", event |-> "none", room |-> UndefinedId, conn |-> "none"]
NoFailure == [event |-> "none", origin |-> "none", targets |-> {}]
\* no record: the id 0 is the id of no record
NoRecord == [table |-> "", id |-> 0, link |-> UndefinedId]
NoBroadcast == [payload |-> NoRecord, event |-> "none", targets |-> {}]

\* response.data.records[0].id of getTaskRecordIdByDisplayId: the record the
\* tasks table holds under the display id
foundRecordId == rec1Id

\* taskRecordId of sendMessage, projectId of sendProjectMessage
linkedId(event, room) ==
    IF event = "sendMessage" /\ ~startsWith(room, recPrefix) THEN foundRecordId ELSE room

\* the logical table name each handler creates its record under
messageTableOf(event) ==
    IF event = "sendMessage" THEN "task_chat" ELSE "project_messages"

\* newMessage: { fields: { task_id: [taskRecordId], ... } } and
\* { fields: { project_id: [projectId], ... } }; it has no id yet
newMessage(id, event, room) ==
    [table |-> getTableName(messageTableOf(event)), id |-> 0,
     link |-> linkedId(event, room)]

\* createdRecord.records[0]: the record as the store created it, under the id
\* the store made for it (the k-th record created has the k-th id)
createdRecord(id, event, room) ==
    [table |-> getTableName(messageTableOf(event)), id |-> id,
     link |-> linkedId(event, room)]

\* a receive event that carries the message as it was sent to the store
receivePayloadNewMessage(id, event, room) == newMessage(id, event, room)

\* io.to(room).emit('receive...', createdRecord.records[0])
receivePayload(id, event, room) == createdRecord(id, event, room)

\* the failure event each handler's catch emits
failureEventOf(event) ==
    CASE event = "sendMessage" -> "sendMessageError"
      [] event = "sendProjectMessage" -> "sendProjectMessageError"
      [] event = "markMessagesAsRead" -> "markMessagesAsReadError"

\* the failure event goes to every member of the handler's room
failureTargetsRoom(c, room) == {c} \cup {d \in Conns : room \in skRooms[d]}

\* socket.emit(failure event): to the socket the event came in on
failureTargets(c, room) == {c}

\* an event of connection c starts its handler
free(c) ==
    /\ skProcess = "running"
    /\ c \in skConnected
    /\ \E h \in Handlers : skHandler[h].pc = "idle"

\* the handler an event that arrives now runs in: the first idle one
skNext ==
    HandlerOrder[CHOOSE k \in 1..Len(HandlerOrder) :
                    /\ skHandler[HandlerOrder[k]].pc = "idle"
                    /\ \A j \in 1..(k - 1) : skHandler[HandlerOrder[j]].pc # "idle"]

\* catch (error) { socket.emit('<event>Error', ...) }: the handler is over
caught(h, c, event, room) ==
    /\ skHandler' = [skHandler EXCEPT ![h] = idleHandler]
    /\ skFailure' = [event |-> failureEventOf(event), origin |-> c,
                     targets |-> failureTargets(c, room)]
    /\ UNCHANGED <<skProcess, skConnected, skRooms, skBroadcast, skCreated>>

\* the payload is destructured in the parameter list, outside the try: with no
\* payload the async handler rejects, nothing catches the rejection, and the
\* runtime (Node 18) ends the process, and with it every connection, room
\* and handler in flight
rejects(h, c, event) ==
    /\ skHandler' = [g \in Handlers |->
                       IF g = h
                       THEN [pc |-> "rejected", event |-> event, room |-> UndefinedId,
                             conn |-> c]
                       ELSE idleHandler]
    /\ skProcess' = "terminated"
    /\ skConnected' = {}
    /\ skRooms' = [d \in Conns |-> {}]
    /\ UNCHANGED <<skFailure, skBroadcast, skCreated>>

awaits(h, c, event, room, pc) ==
    /\ skHandler' = [skHandler EXCEPT ![h] = [pc |-> pc, event |-> event, room |-> room,
                                              conn |-> c]]
    /\ UNCHANGED <<skProcess, skConnected, skRooms, skFailure, skBroadcast, skCreated>>

\* io.on('connection', (socket) => ...): a socket that has received nothing
connect(c) ==
    /\ skProcess = "running"
    /\ c \notin skConnected
    /\ \A h \in Handlers : skHandler[h].conn # c
    /\ skConnected' = skConnected \cup {c}
    /\ skFailure' = IF skFailure.origin = c THEN NoFailure ELSE skFailure
    /\ UNCHANGED <<skProcess, skRooms, skHandler, skBroadcast, skCreated>>
    /\ UNCHANGED notSocketVars

\* socket.on('disconnect', ...): the socket leaves its rooms
disconnect(c) ==
    /\ skProcess = "running"
    /\ c \in skConnected
    /\ skConnected' = skConnected \ {c}
    /\ skRooms' = [skRooms EXCEPT ![c] = {}]
    /\ UNCHANGED <<skProcess, skHandler, skFailure, skBroadcast, skCreated>>
    /\ UNCHANGED notSocketVars

\* socket.on('joinTaskRoom', (taskId) => socket.join(taskId))
joinTaskRoom(c, taskId) ==
    /\ skProcess = "running"
    /\ c \in skConnected
    /\ taskId \notin skRooms[c]
    /\ skRooms' = [skRooms EXCEPT ![c] = @ \cup {taskId}]
    /\ UNCHANGED <<skProcess, skConnected, skHandler, skFailure, skBroadcast, skCreated>>
    /\ UNCHANGED notSocketVars

\* socket.on('leaveTaskRoom', (taskId) => socket.leave(taskId))
leaveTaskRoom(c, taskId) ==
    /\ skProcess = "running"
    /\ c \in skConnected
    /\ taskId \in skRooms[c]
    /\ skRooms' = [skRooms EXCEPT ![c] = @ \ {taskId}]
    /\ UNCHANGED <<skProcess, skConnected, skHandler, skFailure, skBroadcast, skCreated>>
    /\ UNCHANGED notSocketVars

\* socket.on('joinProjectRoom', (projectId) => socket.join(projectId))
joinProjectRoom(c, projectId) ==
    /\ skProcess = "running"
    /\ c \in skConnected
    /\ projectId \notin skRooms[c]
    /\ skRooms' = [skRooms EXCEPT ![c] = @ \cup {projectId}]
    /\ UNCHANGED <<skProcess, skConnected, skHandler, skFailure, skBroadcast, skCreated>>
    /\ UNCHANGED notSocketVars

\* socket.on('leaveProjectRoom', (projectId) => socket.leave(projectId))
leaveProjectRoom(c, projectId) ==
    /\ skProcess = "running"
    /\ c \in skConnected
    /\ projectId \in skRooms[c]
    /\ skRooms' = [skRooms EXCEPT ![c] = @ \ {projectId}]
    /\ UNCHANGED <<skProcess, skConnected, skHandler, skFailure, skBroadcast, skCreated>>
    /\ UNCHANGED notSocketVars

\* socket.on('sendMessage', async ({ taskId, message, sender }) => ...), up to
\* its first await
sendMessage(c, taskId) ==
    /\ free(c)
    /\ IF taskId = NoPayload
       THEN rejects(skNext, c, "sendMessage")
       ELSE IF taskId = UndefinedId
       THEN caught(skNext, c, "sendMessage", taskId)
       ELSE IF startsWith(taskId, recPrefix)
       THEN awaits(skNext, c, "sendMessage", taskId, "creating")
       ELSE awaits(skNext, c, "sendMessage", taskId, "lookup")
    /\ UNCHANGED notSocketVars

\* getTaskRecordIdByDisplayId resolves, with a record id or with null
lookupReturns(h, found) ==
    /\ skProcess = "running"
    /\ skHandler[h].pc = "lookup"
    /\ IF found
       THEN awaits(h, skHandler[h].conn, "sendMessage", skHandler[h].room, "creating")
       ELSE caught(h, skHandler[h].conn, "sendMessage", skHandler[h].room)
    /\ UNCHANGED notSocketVars

\* socket.on('sendProjectMessage', async ({ projectId, message, sender }) => ...)
sendProjectMessage(c, projectId) ==
    /\ free(c)
    /\ IF projectId = NoPayload
       THEN rejects(skNext, c, "sendProjectMessage")
       ELSE awaits(skNext, c, "sendProjectMessage", projectId, "creating")
    /\ UNCHANGED notSocketVars

\* socket.on('markMessagesAsRead', async ({ messageIds, tableName }) => ...):
\* without ids or without a table name the handler returns at once
markMessagesAsRead(c, payload) ==
    /\ free(c)
    /\ IF payload = "none"
       THEN rejects(skNext, c, "markMessagesAsRead")
       ELSE IF payload \in {"empty", "noTable"}
       THEN UNCHANGED socketVars
       ELSE awaits(skNext, c, "markMessagesAsRead", UndefinedId, "updating")
    /\ UNCHANGED notSocketVars

\* the awaited write resolves: createRecords, then io.to(room).emit(...);
\* updateMultipleRecords, then nothing more
storeReturns(h) ==
    /\ skProcess = "running"
    /\ skHandler[h].pc \in {"creating", "updating"}
    /\ skHandler[h].pc = "creating" => skCreated.id < MaxMessages
    /\ skHandler' = [skHandler EXCEPT ![h] = idleHandler]
    /\ skCreated' =
         IF skHandler[h].pc = "creating"
         THEN createdRecord(skCreated.id + 1, skHandler[h].event, skHandler[h].room)
         ELSE skCreated
    /\ skBroadcast' =
         IF skHandler[h].pc = "creating"
         THEN [payload |-> receivePayload(skCreated.id + 1, skHandler[h].event,
                                          skHandler[h].room),
               event |-> IF skHandler[h].event = "sendMessage"
                         THEN "receiveMessage" ELSE "receiveProjectMessage",
               targets |-> {d \in Conns : skHandler[h].room \in skRooms[d]}]
         ELSE skBroadcast
    /\ UNCHANGED <<skProcess, skConnected, skRooms, skFailure>>
    /\ UNCHANGED notSocketVars

\* the awaited call rejects: getTaskRecordIdByDisplayId, createRecords or
\* updateMultipleRecords
storeThrows(h) ==
    /\ skProcess = "running"
    /\ skHandler[h].pc \in {"lookup", "creating", "updating"}
    /\ caught(h, skHandler[h].conn, skHandler[h].event, skHandler[h].room)
    /\ UNCHANGED notSocketVars

InitSocket ==
    /\ skProcess = "running"
    /\ skConnected = {}
    /\ skRooms = [c \in Conns |-> {}]
    /\ skHandler = [h \in Handlers |-> idleHandler]
    /\ skFailure = NoFailure
    /\ skBroadcast = NoBroadcast
    /\ skCreated = NoRecord

RestSocket == InitSocket

NextSocket ==
    \/ \E c \in Conns : connect(c)
    \/ \E c \in Conns : disconnect(c)
    \/ \E c \in Conns, taskId \in {displayId} : joinTaskRoom(c, taskId)
    \/ \E c \in Conns, taskId \in {displayId} : leaveTaskRoom(c, taskId)
    \/ \E c \in Conns, projectId \in ProjectIds : joinProjectRoom(c, projectId)
    \/ \E c \in Conns, projectId \in ProjectIds : leaveProjectRoom(c, projectId)
    \/ \E c \in Conns, taskId \in TaskIds \cup {NoPayload} : sendMessage(c, taskId)
    \/ \E h \in Handlers, found \in BOOLEAN : lookupReturns(h, found)
    \/ \E c \in Conns, projectId \in ProjectIds \cup {NoPayload} : sendProjectMessage(c, projectId)
    \/ \E c \in Conns, payload \in ReadPayloads : markMessagesAsRead(c, payload)
    \/ \E h \in Handlers : storeReturns(h)
    \/ \E h \in Handlers : storeThrows(h)

-----------------------------------------------------------------------------
(* The secret cache (src/secrets.js).  initializeSecrets fetches the four   *)
(* names of secretNames in parallel and caches each payload as its fetch    *)
(* resolves; getSecret answers from the cache, and fetches and caches a     *)
(* name the cache does not hold.  Both are exported, so callers may call    *)
(* them in any order; each call's awaits interleave with the other calls.   *)

secretNames == {"FRONTEND_URL", "GCS_BUCKET_NAME", "AIRTABLE_API_KEY", "AIRTABLE_BASE_ID"}
\* the name initializeApp asks for that secretNames does not hold
GCP_PROJECT_ID == "GCP_PROJECT_ID"
SecretKeys == secretNames \cup {GCP_PROJECT_ID}
\* the names the callers other than initializeApp ask for
AskedKeys == {"FRONTEND_URL", GCP_PROJECT_ID}

Absent == "undefined"
\* payloads: the store rejects an empty payload, so every payload is truthy
Payloads == {"v1", "v2"}

\* "app": initializeApp; the others: any further caller of the module
Callers == {"app", "g1", "g2"}

noCall == [value |-> Absent, pc |-> "idle", key |-> "", cachedAtCall |-> Absent,
           fetched |-> FALSE]

\* secrets[secretName] = payload
cacheWrite(key, payload) ==
    /\ secrets' = [secrets EXCEPT ![key] = payload]
    /\ secWrites' = [secWrites EXCEPT ![key] = @ + 1]
    /\ secFirst' = [secFirst EXCEPT ![key] = IF @ = Absent THEN payload ELSE @]

\* the calls of initializeSecrets, in the order in which they are made
InitCalls == 1..MaxInits

\* no call of the module is in flight
quiet ==
    /\ \A k \in InitCalls : secInitPc[k] \in {"idle", "done"} /\ secInitPending[k] = {}
    /\ \A c \in Callers : secGet[c].pc # "fetching"

\* the process is alive
alive == appPc # "exited"

\* getSecret goes to the store whatever the cache holds
cacheHitNever(key) == FALSE

\* if (secrets[secretName])
cacheHit(key) == secrets[key] # Absent

\* initializeSecrets(): the four fetches are issued, whatever the calls
\* before this one are waiting for
initializeSecretsCall ==
    /\ secInits < MaxInits
    /\ secInitPc' = [secInitPc EXCEPT ![secInits + 1] = "running"]
    /\ secInitPending' = [secInitPending EXCEPT ![secInits + 1] = secretNames]
    /\ secInits' = secInits + 1
    /\ secOrderly' = (secOrderly /\ secInits = 0 /\ secGets = 0)
    /\ UNCHANGED <<secrets, secLatest, secGet, secWrites, secFirst, secGets>>

\* one accessSecretVersion of initializeSecrets resolves: .then caches the
\* payload; Promise.all resolves with the last of them
initFetchReturns(k, key) ==
    /\ alive
    /\ key \in secInitPending[k]
    /\ cacheWrite(key, secLatest[key])
    /\ secInitPending' = [secInitPending EXCEPT ![k] = @ \ {key}]
    /\ secInitPc' = [secInitPc EXCEPT ![k] =
                        IF @ = "running" /\ secInitPending[k] = {key} THEN "done" ELSE @]
    /\ UNCHANGED <<secLatest, secGet, secInits, secGets, secOrderly>>
    /\ UNCHANGED notSecretsVars

\* one accessSecretVersion of initializeSecrets rejects: Promise.all rejects
\* and initializeSecrets throws; the other fetches go on
initFetchFails(k, key) ==
    /\ alive
    /\ key \in secInitPending[k]
    /\ secInitPending' = [secInitPending EXCEPT ![k] = @ \ {key}]
    /\ secInitPc' = [secInitPc EXCEPT ![k] = "failed"]
    /\ UNCHANGED <<secrets, secLatest, secGet, secWrites, secFirst, secInits, secGets,
                   secOrderly>>
    /\ UNCHANGED notSecretsVars

\* getSecret(secretName), up to its return or its await
getSecretCall(c, key) ==
    /\ secGet[c].pc # "fetching"
    /\ secGets' = secGets + 1
    /\ secOrderly' = (secOrderly /\ quiet /\ secInits = 1 /\ secInitPc[1] = "done")
    /\ secGet' = [secGet EXCEPT ![c] =
                    IF cacheHit(key)
                    THEN [value |-> secrets[key], pc |-> "returned", key |-> key,
                          cachedAtCall |-> secrets[key], fetched |-> FALSE]
                    ELSE [value |-> Absent, pc |-> "fetching", key |-> key,
                          cachedAtCall |-> secrets[key], fetched |-> TRUE]]
    /\ UNCHANGED <<secrets, secLatest, secInitPc, secInitPending, secWrites, secFirst,
                   secInits>>

\* getSecret: accessSecretVersion resolves; the payload is cached and returned
getFetchReturns(c) ==
    /\ alive
    /\ secGet[c].pc = "fetching"
    /\ cacheWrite(secGet[c].key, secLatest[secGet[c].key])
    /\ secGet' = [secGet EXCEPT ![c].pc = "returned",
                                ![c].value = secLatest[secGet[c].key]]
    /\ UNCHANGED <<secLatest, secInitPc, secInitPending, secInits, secGets, secOrderly>>
    /\ UNCHANGED notSecretsVars

\* getSecret: accessSecretVersion rejects; getSecret throws
getFetchFails(c) ==
    /\ alive
    /\ secGet[c].pc = "fetching"
    /\ secGet' = [secGet EXCEPT ![c].pc = "threw"]
    /\ UNCHANGED <<secrets, secLatest, secInitPc, secInitPending, secWrites, secFirst,
                   secInits, secGets, secOrderly>>
    /\ UNCHANGED notSecretsVars

\* a caller of the module calls initializeSecrets
initializeSecrets ==
    /\ initializeSecretsCall
    /\ UNCHANGED notSecretsVars

\* a caller of the module calls getSecret
getSecret(c, key) ==
    /\ secGets < MaxGets
    /\ getSecretCall(c, key)
    /\ UNCHANGED notSecretsVars

\* a new version of a secret is added in the store
newVersion(key) ==
    /\ secLatest[key] = "v1"
    /\ secLatest' = [secLatest EXCEPT ![key] = "v2"]
    /\ UNCHANGED <<secrets, secInitPc, secInitPending, secGet, secWrites, secFirst,
                   secInits, secGets, secOrderly>>
    /\ UNCHANGED notSecretsVars

InitSecrets ==
    /\ secrets = [k \in SecretKeys |-> Absent]
    /\ secLatest = [k \in SecretKeys |-> "v1"]
    /\ secInitPc = [k \in InitCalls |-> "idle"]
    /\ secInitPending = [k \in InitCalls |-> {}]
    /\ secGet = [c \in Callers |-> noCall]
    /\ secWrites = [k \in SecretKeys |-> 0]
    /\ secFirst = [k \in SecretKeys |-> Absent]
    /\ secInits = 0
    /\ secGets = 0
    /\ secOrderly = TRUE

RestSecrets == InitSecrets

\* The callers of this specification ask for the names of AskedKeys only.  The
\* fetches initializeSecrets makes for the other names change nothing those
\* callers see, so they are taken to resolve in the order of secretNames.
otherNames == <<"GCS_BUCKET_NAME", "AIRTABLE_API_KEY", "AIRTABLE_BASE_ID">>
resolvable(k) ==
    {key \in secInitPending[k] :
        \/ key \in AskedKeys
        \/ \E i \in 1..Len(otherNames) :
              /\ otherNames[i] = key
              /\ \A j \in 1..(i - 1) : otherNames[j] \notin secInitPending[k]}

NextSecrets ==
    \/ initializeSecrets
    \/ \E k \in InitCalls : \E key \in resolvable(k) : initFetchReturns(k, key)
    \/ \E k \in InitCalls : \E key \in secInitPending[k] \cap AskedKeys :
          initFetchFails(k, key)
    \/ \E c \in Callers \ {"app"}, key \in AskedKeys : getSecret(c, key)
    \/ \E c \in Callers : getFetchReturns(c)
    \/ \E c \in Callers : getFetchFails(c)
    \/ \E key \in AskedKeys : newVersion(key)

-----------------------------------------------------------------------------
(* Startup (src/index.js, initializeApp): the secrets, then the services,   *)
(* the routes and the socket handlers, then server.listen; any error on the *)
(* way is caught and ends the process.                                      *)

\* the names initializeApp asks getSecret for, in order
appSecrets ==
    <<"FRONTEND_URL", "GCS_BUCKET_NAME", "AIRTABLE_API_KEY", "AIRTABLE_BASE_ID",
      GCP_PROJECT_ID>>

\* the position after the secret at position i
afterSecret(i) == IF i = Len(appSecrets) THEN "services" ELSE "getSecret"

\* initializeApp goes on to its services although getSecret threw
onSecretFailureGoesOn(i) == afterSecret(i)

\* catch (error) { process.exit(1) }
onSecretFailure(i) == "exited"

\* initializeApp(): await initializeSecrets()
appStart ==
    /\ appPc = "start"
    /\ initializeSecretsCall
    /\ appPc' = "initializeSecrets"
    /\ UNCHANGED <<appListening, appConfig>>
    /\ UNCHANGED notStartupSecretsVars

\* initializeSecrets resolved, or threw 'Could not initialize secrets.'; the
\* call of initializeApp is the first call of the module
appSecretsInitialized ==
    /\ appPc = "initializeSecrets"
    /\ secInitPc[1] \in {"done", "failed"}
    /\ appPc' = IF secInitPc[1] = "done" THEN "getSecret" ELSE "exited"
    /\ UNCHANGED <<appListening, appConfig>>
    /\ UNCHANGED secretsVars
    /\ UNCHANGED notStartupSecretsVars

\* await getSecret(name): the call
appGetSecret ==
    /\ appPc = "getSecret"
    /\ secGet["app"].pc # "fetching"
    /\ getSecretCall("app", appSecrets[Len(appConfig) + 1])
    /\ appPc' = "awaitSecret"
    /\ UNCHANGED <<appListening, appConfig>>
    /\ UNCHANGED notStartupSecretsVars

\* await getSecret(name): its outcome
appSecretObtained ==
    /\ appPc = "awaitSecret"
    /\ secGet["app"].pc \in {"returned", "threw"}
    /\ IF secGet["app"].pc = "returned"
       THEN /\ appConfig' = Append(appConfig, secGet["app"].key)
            /\ appPc' = afterSecret(Len(appConfig) + 1)
       ELSE /\ appConfig' = appConfig
            /\ appPc' = onSecretFailure(Len(appConfig) + 1)
    /\ UNCHANGED appListening
    /\ UNCHANGED secretsVars
    /\ UNCHANGED notStartupSecretsVars

\* initializeAirtableService, new Server, storage.bucket, the recaptcha client,
\* the routes and the socket handlers; ok: none of them threw
appServices(ok) ==
    /\ appPc = "services"
    /\ appPc' = IF ok THEN "listen" ELSE "exited"
    /\ UNCHANGED <<appListening, appConfig>>
    /\ UNCHANGED secretsVars
    /\ UNCHANGED notStartupSecretsVars

\* server.listen(port, ...)
appListen ==
    /\ appPc = "listen"
    /\ appListening' = TRUE
    /\ appPc' = "serving"
    /\ UNCHANGED appConfig
    /\ UNCHANGED secretsVars
    /\ UNCHANGED notStartupSecretsVars

InitStartup ==
    /\ appPc = "start"
    /\ appListening = FALSE
    /\ appConfig = <<>>

RestStartup == InitStartup

NextStartup ==
    \/ appStart
    \/ \E key \in secretNames : initFetchReturns(1, key)
    \/ \E key \in secretNames : initFetchFails(1, key)
    \/ appSecretsInitialized
    \/ appGetSecret
    \/ getFetchReturns("app")
    \/ getFetchFails("app")
    \/ appSecretObtained
    \/ \E ok \in BOOLEAN : appServices(ok)
    \/ appListen
    \/ \E key \in SecretKeys : newVersion(key)

----------------------------------------------------------------------------
(* Specifications.  Each component has a specification of its own, in      *)
(* which the other components stay as constructed: SpecBulk, SpecBoard,    *)
(* SpecAttach and SpecCounter are the ones the claims are checked under.   *)
(* Spec is the service as a whole, every component free to move.           *)

RestBulk ==
    /\ svcModule = "part_000"
    /\ bulkOp = "none"
    /\ bulkPc = "idle"
    /\ tableName = ""
    /\ recordsIn = <<>>
    /\ processedRecords = <<>>
    /\ loopI = 0
    /\ allRecords = <<>>
    /\ bulkReturn = <<>>
    /\ apiCalls = <<>>
    /\ committed = <<>>
    /\ nextRecId = 1
    /\ inFlight = <<>>

RestBoard ==
    /\ apiResponse = <<>>
    /\ boardPc = "input"
    /\ board = [groups |-> <<>>, ungrouped |-> <<>>]

RestAttach ==
    /\ recFields = ("Notes" :> <<>>)
    /\ recFields0 = recFields
    /\ bucketObjects = {}
    /\ clock = 1
    /\ reqPc = [r \in Requests |-> "idle"]
    /\ reqMode = [r \in Requests |-> "none"]
    /\ reqFile = [r \in Requests |-> NoFile]
    /\ reqBlob = [r \in Requests |-> blobName(0, NoFile)]
    /\ reqExisting = [r \in Requests |-> <<>>]
    /\ reqSeen = [r \in Requests |-> 0]
    /\ reqStatus = [r \in Requests |-> 0]
    /\ reqBody = [r \in Requests |-> <<>>]
    /\ writeLog = <<>>

RestCounter ==
    /\ counterFields = <<>>
    /\ counterFields0 = counterFields
    /\ callPc = [c \in Calls |-> "idle"]
    /\ callCurrent = [c \in Calls |-> 0]
    /\ callSeen = [c \in Calls |-> 0]
    /\ callReturn = [c \in Calls |-> 0]
    /\ counterLog = <<>>

RestSingle == InitSingle

InitOfBulk == InitBulk /\ RestBoard /\ RestAttach /\ RestCounter /\ RestSingle
    /\ RestContent /\ RestHttp /\ RestSocket /\ RestSecrets /\ RestStartup
InitOfBoard == RestBulk /\ InitBoard /\ RestAttach /\ RestCounter /\ RestSingle
    /\ RestContent /\ RestHttp /\ RestSocket /\ RestSecrets /\ RestStartup
InitOfAttach == RestBulk /\ RestBoard /\ InitAttach /\ RestCounter /\ RestSingle
    /\ RestContent /\ RestHttp /\ RestSocket /\ RestSecrets /\ RestStartup
InitOfCounter == RestBulk /\ RestBoard /\ RestAttach /\ InitCounter /\ RestSingle
    /\ RestContent /\ RestHttp /\ RestSocket /\ RestSecrets /\ RestStartup
InitOfStartup ==
    RestBulk /\ RestBoard /\ RestAttach /\ RestCounter /\ RestSecrets
    /\ RestSocket /\ RestHttp /\ RestContent /\ RestSingle /\ InitStartup
InitOfSecrets ==
    RestBulk /\ RestBoard /\ RestAttach /\ RestCounter /\ RestSocket
    /\ RestHttp /\ RestContent /\ RestSingle /\ InitSecrets /\ RestStartup
InitOfSocket ==
    RestBulk /\ RestBoard /\ RestAttach /\ RestCounter /\ RestHttp
    /\ RestContent /\ RestSingle /\ InitSocket /\ RestSecrets /\ RestStartup
InitOfHttp ==
    RestBulk /\ RestBoard /\ RestAttach /\ RestCounter /\ RestContent
    /\ RestSingle /\ InitHttp /\ RestSocket /\ RestSecrets /\ RestStartup
InitOfContent ==
    RestBulk /\ RestBoard /\ RestAttach /\ RestCounter /\ RestSingle
    /\ InitContent /\ RestHttp /\ RestSocket /\ RestSecrets /\ RestStartup
InitOfSingle ==
    InitBulk /\ RestBoard /\ RestAttach /\ RestCounter /\ InitSingle
    /\ RestContent /\ RestHttp /\ RestSocket /\ RestSecrets /\ RestStartup

SpecBulk == InitOfBulk /\ [][NextBulk]_vars
SpecBoard == InitOfBoard /\ [][NextBoard]_vars
SpecAttach == InitOfAttach /\ [][NextAttach]_vars
SpecCounter == InitOfCounter /\ [][NextCounter]_vars
SpecSingle == InitOfSingle /\ [][NextSingle]_vars
SpecContent == InitOfContent /\ [][NextContent]_vars
SpecHttp == InitOfHttp /\ [][NextHttp]_vars
SpecSocket == InitOfSocket /\ [][NextSocket]_vars
SpecSecrets == InitOfSecrets /\ [][NextSecrets]_vars
SpecStartup == InitOfStartup /\ [][NextStartup]_vars

Init == InitBulk /\ InitBoard /\ InitAttach /\ InitCounter /\ InitSingle /\ InitContent
    /\ InitHttp /\ InitSocket /\ InitSecrets /\ InitStartup
Next == NextBulk \/ NextBoard \/ NextAttach \/ NextCounter \/ NextSingle \/ NextContent
    \/ NextHttp \/ NextSocket \/ NextSecrets \/ NextStartup
Spec == Init /\ [][Next]_vars

----------------------------------------------------------------------------
(* Claims about the bulk writes (checked under SpecBulk). *)

CeilDiv(n, d) == (n + d - 1) \div d

\* the records the store wrote for the first n records of the list paged over
RECURSIVE sizesBefore(_, _)
sizesBefore(calls, k) ==
    IF k <= 1 THEN 0 ELSE sizesBefore(calls, k - 1) + Len(calls[k - 1].records)

\* a returned (or committed) record answers the input record it was made from
answers(out, in) ==
    /\ out.fields = in.fields
    /\ bulkOp = "update" => out.id = in.id

\* C1: a createRecords / updateMultipleRecords of N records that runs to
\* completion has issued exactly ceil(N/10) bulk-write calls, each of 1..10
\* records.  (Fails in src/airtableService.js, which sends one call whatever N.)
C1_CeilPageCalls ==
    bulkPc = "returned" =>
        /\ Len(apiCalls) = CeilDiv(Len(recordsIn), PageSize)
        /\ \A k \in 1..Len(apiCalls) :
              /\ Len(apiCalls[k].records) >= 1
              /\ Len(apiCalls[k].records) <= PageSize

\* C1, for the adapter index.js drives only: the paging loops do issue
\* ceil(N/10) calls of 1..10 records each.
C1_PagingLoopCalls == svcModule = "part_000" => C1_CeilPageCalls

\* C2: when every page succeeds the returned list is the pages' answers in
\* page order: it is the store's commit log, its length is the input's, and its
\* i-th element answers the i-th input record.
C2_ResultInInputOrder ==
    bulkPc = "returned" =>
        /\ bulkReturn = committed
        /\ Len(bulkReturn) = Len(recordsIn)
        /\ \A i \in 1..Len(bulkReturn) :
              /\ answers(bulkReturn[i], processedRecords[i])
              /\ bulkReturn[i].fields["Name"] = recordsIn[i].fields["Name"]
              /\ bulkOp = "create" => bulkReturn[i].id = i

C2_Witness ==
    /\ bulkPc = "returned"
    /\ svcModule = "part_000"
    /\ Len(apiCalls) = 3
    /\ Len(bulkReturn) = 2 * PageSize + 1
    /\ bulkReturn[2 * PageSize + 1].fields["Name"] = Num(2 * PageSize + 1)

\* C3: a failed page is the last call ever issued; the operation has thrown,
\* nothing was returned, and the store holds exactly what the earlier pages
\* wrote (nothing is rolled back, nothing of the failed or later pages is
\* written).
C3_FailedPageStopsTheWrite ==
    \A k \in 1..Len(apiCalls) :
        ~apiCalls[k].ok =>
            /\ k = Len(apiCalls)
            /\ bulkPc = "thrown"
            /\ bulkReturn = <<>>
            /\ \A j \in 1..(k - 1) : apiCalls[j].ok
            /\ Len(committed) = sizesBefore(apiCalls, k)
            /\ \A i \in 1..Len(committed) : answers(committed[i], processedRecords[i])

C3_Witness ==
    /\ bulkPc = "thrown"
    /\ svcModule = "part_000"
    /\ Len(apiCalls) = 3
    /\ ~apiCalls[3].ok
    /\ Len(committed) = 2 * PageSize
    /\ Len(recordsIn) > 2 * PageSize

----------------------------------------------------------------------------
(* Claims about the board transform (checked under SpecBoard). *)

\* the task lists of a board: ungrouped and each group's tasks
taskLists(b) == {b.ungrouped} \cup {b.groups[i].tasks : i \in 1..Len(b.groups)}

\* the source order of an output task: the order field of the input record it
\* was copied from (the one of the same Name), a missing order counting as 0
sourceOrder(task) ==
    LET f == apiResponse[task["Name"]].fields
    IN  IF "order" \in DOMAIN f THEN f["order"] ELSE 0

\* the input record has no group link: no task_groups field, or an empty one
noGroupLink(record) ==
    \/ "task_groups" \notin DOMAIN record.fields
    \/ record.fields["task_groups"] = <<>>

\* the position of the first input record linked to the group
firstSeen(groupId) ==
    CHOOSE k \in 1..Len(apiResponse) :
        /\ ~noGroupLink(apiResponse[k])
        /\ apiResponse[k].fields["task_groups"][1] = groupId
        /\ \A j \in 1..(k - 1) :
              \/ noGroupLink(apiResponse[j])
              \/ apiResponse[j].fields["task_groups"][1] # groupId

\* C4: in every task list of the board the order values read in list position
\* are 0, 1, ..., n-1, and the list follows ascending source order.
C4_DenseOrder ==
    boardPc = "done" =>
        \A list \in taskLists(board) :
            /\ \A p \in 1..Len(list) :
                  /\ "order" \in DOMAIN list[p]
                  /\ list[p]["order"] = p - 1
            /\ \A p, q \in 1..Len(list) :
                  p < q => sourceOrder(list[p]) <= sourceOrder(list[q])

\* a group of three tasks whose source orders (1, missing, 1) are neither dense
\* nor sorted
C4_Witness ==
    /\ boardPc = "done"
    /\ \E i \in 1..Len(board.groups) :
          LET list == board.groups[i].tasks
          IN  /\ Len(list) = 3
              /\ list[1]["Name"] = 2
              /\ sourceOrder(list[2]) = 1
              /\ sourceOrder(list[3]) = 1
              /\ list[3]["order"] = 2

\* C5: groups come out in ascending group_order, groups of equal group_order in
\* the order they were first met in the input.
C5_GroupsAscending ==
    boardPc = "done" =>
        \A i, j \in 1..Len(board.groups) :
            i < j =>
                /\ board.groups[i].group_order <= board.groups[j].group_order
                /\ board.groups[i].group_order = board.groups[j].group_order =>
                      firstSeen(board.groups[i].task_groups)
                          < firstSeen(board.groups[j].task_groups)

\* the group of order 5 is met first, the group of order 2 second: the output
\* is [2, 5]
C5_Witness ==
    /\ boardPc = "done"
    /\ Len(board.groups) = 2
    /\ board.groups[1].group_order = 2
    /\ board.groups[2].group_order = 5
    /\ firstSeen(board.groups[2].task_groups) < firstSeen(board.groups[1].task_groups)

\* C6: no task of the board carries task_groups, group_name or group_order.
C6_NoGroupingFields ==
    boardPc = "done" =>
        \A list \in taskLists(board) :
            \A p \in 1..Len(list) : DOMAIN list[p] \cap groupingFields = {}

\* the input held a grouped record with all three fields and an ungrouped one
\* that carried them too
C6_Witness ==
    /\ boardPc = "done"
    /\ Len(board.ungrouped) > 0
    /\ Len(board.groups) > 0
    /\ \E k \in 1..Len(apiResponse) :
          /\ noGroupLink(apiResponse[k])
          /\ groupingFields \subseteq DOMAIN apiResponse[k].fields
    /\ \E k \in 1..Len(apiResponse) :
          /\ ~noGroupLink(apiResponse[k])
          /\ groupingFields \subseteq DOMAIN apiResponse[k].fields

\* C7: when no input record has a group link, groups is empty and ungrouped
\* holds every input record once, renumbered 0..N-1 in ascending source order.
C7_NoLinksAllUngrouped ==
    (boardPc = "done" /\ \A k \in 1..Len(apiResponse) : noGroupLink(apiResponse[k])) =>
        /\ board.groups = <<>>
        /\ Len(board.ungrouped) = Len(apiResponse)
        /\ {board.ungrouped[p]["Name"] : p \in 1..Len(board.ungrouped)}
              = 1..Len(apiResponse)
        /\ \A p \in 1..Len(board.ungrouped) :
              /\ "order" \in DOMAIN board.ungrouped[p]
              /\ board.ungrouped[p]["order"] = p - 1
              /\ \A f \in DOMAIN board.ungrouped[p] \ {"order"} :
                    board.ungrouped[p][f] = apiResponse[board.ungrouped[p]["Name"]].fields[f]
        /\ \A p, q \in 1..Len(board.ungrouped) :
              p < q => sourceOrder(board.ungrouped[p]) <= sourceOrder(board.ungrouped[q])

\* three unlinked records (one with an empty task_groups list) that the sort
\* reorders
C7_Witness ==
    /\ boardPc = "done"
    /\ Len(apiResponse) = 3
    /\ \A k \in 1..Len(apiResponse) : noGroupLink(apiResponse[k])
    /\ \E k \in 1..Len(apiResponse) : "task_groups" \in DOMAIN apiResponse[k].fields
    /\ board.ungrouped[1]["Name"] = 3
    /\ Len(board.ungrouped) = 3

----------------------------------------------------------------------------
(* Claims about the attachment routes (checked under SpecAttach). *)

\* C8: the write of a request that no other request's write has overtaken
\* since it read the field leaves the field holding what it held plus the new
\* reference at the end (an absent field counting as the empty list); the write
\* of a replace request leaves exactly the new reference, whatever the field
\* held.  The answer is 200 with the field as written.
C8_AppendAndReplace ==
    [][\A r \in Requests :
          (reqPc[r] = "update" /\ reqPc'[r] = "done" /\ reqStatus'[r] = 200) =>
              /\ reqBody'[r] = fieldOrEmpty(recFields')
              /\ reqMode[r] = "replace" =>
                    fieldOrEmpty(recFields') = <<newAttachment(r)>>
              /\ (reqMode[r] = "append" /\ reqSeen[r] = Len(writeLog)) =>
                    fieldOrEmpty(recFields')
                        = Append(fieldOrEmpty(recFields), newAttachment(r))]_vars

\* one append alone on a record holding [A]: the field holds [A, B]
C8_Witness ==
    \E r \in Requests :
        /\ \A o \in Requests \ {r} : reqPc[o] = "idle"
        /\ reqPc[r] = "done"
        /\ reqStatus[r] = 200
        /\ reqMode[r] = "append"
        /\ fieldOrEmpty(recFields0) = <<PriorAttachment>>
        /\ fieldOrEmpty(recFields) = <<PriorAttachment, newAttachment(r)>>

\* C9: two upload requests that both read the field before either wrote, and
\* both answered 200, leave the field holding what it held plus the reference
\* of the one that wrote last: one entry more, not two.
C9_LostAppend ==
    \A r1, r2 \in Requests :
        (/\ r1 # r2
         /\ reqMode[r1] = "append" /\ reqMode[r2] = "append"
         /\ reqPc[r1] = "done" /\ reqPc[r2] = "done"
         /\ reqStatus[r1] = 200 /\ reqStatus[r2] = 200
         /\ reqSeen[r1] = reqSeen[r2]) =>
            LET last == writeLog[Len(writeLog)]
            IN  /\ fieldOrEmpty(recFields)
                     = Append(fieldOrEmpty(recFields0), newAttachment(last))
                /\ Len(fieldOrEmpty(recFields)) = Len(fieldOrEmpty(recFields0)) + 1

\* both answered 200 and the reference of the first writer is gone
C9_Witness ==
    /\ \A r \in Requests :
          reqMode[r] = "append" /\ reqPc[r] = "done" /\ reqStatus[r] = 200
    /\ reqSeen[1] = reqSeen[2]
    /\ Len(writeLog) = 2
    /\ newAttachment(1) # newAttachment(2)
    /\ reqBody[writeLog[1]] = Append(fieldOrEmpty(recFields0), newAttachment(writeLog[1]))
    /\ \A i \in 1..Len(fieldOrEmpty(recFields)) :
          fieldOrEmpty(recFields)[i] # newAttachment(writeLog[1])
    /\ fieldOrEmpty(recFields)[Len(fieldOrEmpty(recFields))] = newAttachment(writeLog[2])

----------------------------------------------------------------------------
(* Claims about the counter (checked under SpecCounter). *)

\* C10: two getNextAttachmentId calls that both returned, no other call having
\* written: if both read the counter before either wrote it back they return
\* the same id and the counter stands one above its initial value; if one read
\* after the other's write-back the ids differ and the counter stands two above.
C10_CounterLostUpdate ==
    \A c1, c2 \in Calls :
        (/\ c1 # c2 /\ callPc[c1] = "returned" /\ callPc[c2] = "returned"
         /\ \A p \in 1..Len(counterLog) : counterLog[p] \in {c1, c2}) =>
            IF callSeen[c1] = callSeen[c2]
            THEN /\ callReturn[c1] = callReturn[c2]
                 /\ counterFields[CounterField] = currentIdOf(counterFields0) + 1
            ELSE /\ callReturn[c1] # callReturn[c2]
                 /\ counterFields[CounterField] = currentIdOf(counterFields0) + 2

\* both calls returned the same id: one increment is lost
C10_Witness ==
    /\ \A c \in {1, 2} : callPc[c] = "returned"
    /\ Len(counterLog) = 2
    /\ callSeen[1] = callSeen[2]
    /\ callReturn[1] = callReturn[2]
    /\ callReturn[1] = 8
    /\ counterFields0[CounterField] = 7
    /\ counterFields[CounterField] = 8

----------------------------------------------------------------------------
(* Claims about table resolution and the single-record calls (checked      *)
(* under SpecSingle).                                                      *)

\* the names the running copy's getTableName has a case for
registeredIn(module) ==
    IF module = "part_000" THEN RegisteredNames
    ELSE RegisteredNames \ {"task_groups", "informational_pages", "image_assets"}

\* the table ids of the base a copy can name
externalTableIds(module) ==
    IF module = "part_000"
    THEN {"tblpIHBsPfZXu8IFs", "tblS3ijjC5fBGTuPR", "tblKQ8MMZMirJduk7",
          "tblNQFudN16AwUKBM", "tbl9D8m3mF2RVptEc", "tblev0ek2lTzgxIMQ",
          "tblwPb1smWrdFtTfE", "tblbOAaUlFZvPzTTJ", "tblmByy6LcRAYyf0y",
          "tblLxZdNHFCq8ETVL", "tbl91WJ2yjJX6ndAs", "tbllxpBCIdShL5Mih",
          "tblCD3xEADjeAG3d4", "tblM7936jKJeBdw36", "tblTP0vUb0aMMTpIr"}
    ELSE {"env:AIRTABLE_TABLE_NAME", "env:AIRTABLE_TABLE_COUNTER",
          "env:AIRTABLE_ACTIONS_TABLE_ID", "env:AIRTABLE_ACTIVITES_TABLE_ID",
          "env:AIRTABLE_TABLE_TASKS_ID", "env:AIRTABLE_TABLE_COLLABORATORS_ID",
          "env:AIRTABLE_TABLE_TASK_ATTACHMENTS_ID", "env:AIRTABLE_TABLE_TASK_CHECKLISTS_ID",
          "env:AIRTABLE_TABLE_TASK_CHAT_ID", "env:AIRTABLE_TABLE_TASK_FORMS_ID",
          "env:AIRTABLE_TABLE_TASK_FORMS_FIELDS_ID",
          "env:AIRTABLE_TABLE_TASK_FORMS_SUBMISSIONS_ID"}

mainTableOf(module) ==
    IF module = "part_000" THEN "tblpIHBsPfZXu8IFs" ELSE "env:AIRTABLE_TABLE_NAME"

counterRecordOf(module) ==
    IF module = "part_000" THEN "recVvoLbScv02b54S" ELSE "env:AIRTABLE_TABLE_COUNTER_ID"

\* C11: every logical name, registered or not, resolves to one table id of the
\* base; a name the copy has no case for resolves to the main table; the same
\* name resolves to the same table id in the next call.
C11_ResolveTableTotal ==
    singlePc # "idle" =>
        /\ singleTable \in externalTableIds(svcModule)
        /\ singleTableName \notin registeredIn(svcModule) =>
              singleTable = mainTableOf(svcModule)
        /\ (singlePrev # NoPrev /\ singlePrev.name = singleTableName) =>
              singlePrev.table = singleTable

\* a name spelt with a capital is not registered: twice in a row it went to the
\* main table
C11_Witness ==
    /\ svcModule = "part_000"
    /\ singlePc = "returned"
    /\ singleTableName = "Tasks"
    /\ singleTable = "tblpIHBsPfZXu8IFs"
    /\ singlePrev.name = "Tasks"
    /\ singlePrev.table = "tblpIHBsPfZXu8IFs"

\* C12: a getRecord / updateRecord on the counter table targets the counter
\* record whatever id the caller passed (none included); on any other table
\* name it targets the caller's id.
C12_CounterSingleton ==
    singlePc # "idle" =>
        /\ singleTableName = "counter" => singleId = counterRecordOf(svcModule)
        /\ singleTableName # "counter" => singleId = singleRecordId
        /\ singlePc = "returned" => singleReturn = singleId

\* an update of the counter table with another record's id went to the counter
\* record; the call before it, on another table, went to the caller's id
C12_Witness ==
    /\ svcModule = "part_000"
    /\ singlePc = "returned"
    /\ singleOp = "update"
    /\ singleTableName = "counter"
    /\ singleRecordId = "recA"
    /\ singleId = "recVvoLbScv02b54S"
    /\ singlePrev.name = "tasks"
    /\ singlePrev.id = "recA"

----------------------------------------------------------------------------
(* Claims about content held as an attachment (checked under SpecContent). *)

\* the entries of ctWritten made for the triples saved for
contentWrites == {e \in ctWritten : e.triple # <<>>}

\* C13: all the saves of one (table, recordId, fieldName) write one object
\* name; the bucket holds under it the text written last; no content object
\* shares its name with a timestamp-prefixed upload; and a save answered 200
\* leaves the field, as it is answered, a one-element list pointing at that
\* object.
C13_SameNameOneObject ==
    /\ [](/\ \A e1, e2 \in contentWrites : e1.triple = e2.triple => e1.name = e2.name
          /\ \A e \in contentWrites :
                /\ e.name \in DOMAIN ctBucket
                /\ ctBucket[e.name] = ctLast[e.triple]
          /\ \A e1 \in contentWrites, e2 \in ctWritten \ contentWrites :
                e1.name # e2.name)
    /\ [][\A r \in CtRequests :
            (/\ ctPc[r] = "updating" /\ ctPc'[r] = "done" /\ ctStatus'[r] = 200
             /\ ctRoute[r] \in {"save", "patch"}
             /\ ctTriple[r] \in DOMAIN ctPayload[r]) =>
                LET value == fieldValue(ctFields', ctTriple[r])
                IN  /\ value.kind = "list"
                    /\ Len(value.items) = 1
                    /\ \E e \in contentWrites :
                          /\ e.triple = ctTriple[r]
                          /\ objectOf(value.items[1].url) = e.name
                          /\ value.items[1].filename = e.name]_vars

\* two saves of one triple with different contents, in flight at one time and
\* both answered 200: the bucket holds one object, with the text that landed
\* last, and the field one entry
C13_Witness ==
    /\ \A r \in CtRequests :
          ctPc[r] = "done" /\ ctStatus[r] = 200 /\ ctRoute[r] = "save"
    /\ \A r1, r2 \in CtRequests : ctTriple[r1] = ctTriple[r2]
    /\ {ctContent[r] : r \in CtRequests} = {<<"A">>, <<"B">>}
    /\ ctCount = 2
    /\ Cardinality({e.name : e \in ctWritten}) = 1
    /\ Cardinality(DOMAIN ctBucket) = 1
    /\ \A n \in DOMAIN ctBucket : ctBucket[n] = <<"\"", "B", "\"">>
    /\ \A r \in CtRequests : Len(fieldValue(ctFields, ctTriple[r]).items) = 1

\* the field as read carries no attachment entry
noAttachment(read) == read.kind = "undefined" \/ (read.kind = "list" /\ read.items = <<>>)

----------------------------------------------------------------------------
(* Claims about the HTTP routes (checked under SpecHttp). *)

\* the routes whose handler checks its request before its first call
CheckedRoutes ==
    {"DELETE /api/records/:tableName", "POST /api/records/by-ids", "POST /api/info-pages",
     "POST /api/upload-image", "POST /api/check-recaptcha"}

\* C15: a request that misses a required field is answered 4xx, no external
\* call has been issued for it and nothing outside has changed.
C15_MissingFieldRejected ==
    (httpPc # "idle" /\ httpMissing # {}) =>
        /\ httpPc = "done"
        /\ httpStatus \in 400..499
        /\ httpCalls = <<>>
        /\ httpWrites = 0

\* C15, for the routes that check their request: the same
C15_CheckedRoutesReject ==
    (httpPc # "idle" /\ httpMissing # {} /\ httpRoute \in CheckedRoutes) =>
        /\ httpPc = "done"
        /\ httpStatus = 400
        /\ httpBody = "json"
        /\ httpCalls = <<>>
        /\ httpWrites = 0

\* C16: a request one of whose external calls raised is answered 5xx with a
\* JSON body: never 2xx, never left without an answer.
C16_ExternalFailureIs5xx ==
    httpFailed =>
        /\ httpPc = "done"
        /\ httpStatus \in 500..599
        /\ httpBody = "json"

\* C16, for every route but GET /api/all/:tableName: the same
C16_OtherRoutesAnswer5xx ==
    (httpFailed /\ httpRoute # "GET /api/all/:tableName") =>
        /\ httpPc = "done"
        /\ httpStatus = 500
        /\ httpBody = "json"

\* C19: once the assessment is obtained the answer is 200 exactly when the
\* token is valid, its action is the expected one and the score is 0.5 or
\* more; otherwise it is 4xx.
C19_RecaptchaThreshold ==
    (httpPc = "done" /\ httpAssessment.obtained) =>
        /\ httpStatus = 200 <=>
              /\ httpAssessment.valid
              /\ httpAssessment.action = httpExpected
              /\ httpAssessment.score >= ScoreThreshold
        /\ httpStatus # 200 => httpStatus \in 400..499

\* a valid token with the expected action and a score of exactly 0.5 is let in
C19_Witness ==
    /\ httpPc = "done"
    /\ httpRoute = "POST /api/check-recaptcha"
    /\ httpAssessment.obtained
    /\ httpAssessment.valid
    /\ httpAssessment.action = httpExpected
    /\ httpAssessment.score = 50
    /\ httpStatus = 200

-----------------------------------------------------------------------------
(* Real-time event handlers. *)

\* the failure event emitted last went to the connection whose event failed,
\* and to no other
failureToOrigin ==
    skFailure # NoFailure => skFailure.targets = {skFailure.origin}

\* C17: sendMessage, sendProjectMessage and markMessagesAsRead catch any error
\* raised while the event is handled and emit their failure event to the
\* originating connection only; the process keeps running.
C17_HandlerErrorsCaught ==
    /\ skProcess = "running"
    /\ \A h \in Handlers : skHandler[h].pc # "rejected"
    /\ failureToOrigin

\* C17, the errors raised inside the try block (a missing taskId, a display id
\* that is not found, a failed external call): while the process runs, the
\* handler's failure event goes to the originating connection and to no other.
C17_CaughtErrorsToOriginOnly ==
    /\ [](skProcess = "running" => failureToOrigin)
    /\ [][\A h \in Handlers :
            (skHandler[h].pc = "lookup" /\ skHandler'[h].pc = "idle"
             /\ skProcess' = "running") =>
                skFailure' = [event |-> "sendMessageError",
                              origin |-> skHandler[h].conn,
                              targets |-> {skHandler[h].conn}]]_vars

\* an external call failed on a connection that shares its room with the other
\* connection, and only the first was told
C17_Witness ==
    \E c, d \in Conns :
        /\ c # d
        /\ skProcess = "running"
        /\ displayId \in skRooms[c] \cap skRooms[d]
        /\ skFailure.event = "sendMessageError"
        /\ skFailure.origin = c
        /\ skFailure.targets = {c}

-----------------------------------------------------------------------------
(* Startup and the secret cache. *)

\* a secret that initializeApp needs could not be retrieved, and initializeApp
\* has seen it
secretFailureSeen ==
    \/ secInitPc[1] = "failed" /\ appPc # "initializeSecrets"
    \/ secGet["app"].pc = "threw" /\ appPc # "awaitSecret"

\* C18: the server listens only after the secrets and the services were
\* initialized with success; when a required secret cannot be retrieved at
\* startup the process ends and never listens.
C18_ListenOnlyAfterInit ==
    /\ appListening =>
         /\ appPc = "serving"
         /\ secInitPc[1] = "done"
         /\ appConfig = appSecrets
         /\ \A key \in SecretKeys : secrets[key] # Absent
    /\ secretFailureSeen => appPc = "exited" /\ ~appListening
    /\ appPc = "exited" => ~appListening

\* the server listens, the last secret having been fetched by getSecret
C18_Witness ==
    /\ appListening
    /\ secGet["app"].key = GCP_PROJECT_ID
    /\ secGet["app"].fetched

\* a getSecret call that found its name cached
cachedCalls == {c \in Callers : secGet[c].pc = "returned" /\ secGet[c].cachedAtCall # Absent}

\* C20 as stated: over any sequence and interleaving of initializeSecrets and
\* getSecret calls each name is cached at most once, and a getSecret for a
\* cached name returns that value without calling the store.
C20_WriteOncePerKey ==
    /\ \A key \in SecretKeys : secWrites[key] <= 1
    /\ \A c \in cachedCalls :
         /\ ~secGet[c].fetched
         /\ secGet[c].value = secFirst[secGet[c].key]

\* C20 as amended: a cached name stays cached; a getSecret for a cached name
\* returns what the cache holds without calling the store; and when the calls
\* come as initializeApp makes them (initializeSecrets once and first, every
\* getSecret after the call before it has ended) each name is cached at most
\* once and every getSecret returns the value first cached.
C20_CachedReadsSkipTheStore ==
    /\ \A key \in SecretKeys : secWrites[key] > 0 => secrets[key] # Absent
    /\ \A c \in cachedCalls :
         /\ ~secGet[c].fetched
         /\ secGet[c].value = secGet[c].cachedAtCall
    /\ secOrderly =>
         /\ \A key \in SecretKeys : secWrites[key] <= 1
         /\ \A c \in Callers :
              secGet[c].pc = "returned" => secGet[c].value = secFirst[secGet[c].key]

\* the calls came in order, the store has moved on to a new version, and a
\* getSecret answered with the cached payload
C20_Witness ==
    \E c \in cachedCalls :
        /\ secOrderly
        /\ secLatest[secGet[c].key] # secGet[c].value
        /\ secWrites[secGet[c].key] = 1
        /\ secWrites[GCP_PROJECT_ID] = 1

----------------------------------------------------------------------------
(* Claims about the coercion of createRecords. *)

\* what the store is to receive for the CostSamples, in their order: '' is 0,
\* '12' is 12, 7 is 7, 'a' is not a number, ' ' is 0, '-3' is -3, '1.5' is
\* 15 tenths, '1e3' is 1000, '0x1F' is 31, a 4 between a tab and a line feed is 4
CostSent ==
    <<Num(0), Num(12), Num(7), NaN, Num(0),
      Num(-3), Dec(15, -1), Num(1000), Num(31), Num(4)>>

costSentFor(value) ==
    CostSent[CHOOSE s \in 1..Len(CostSamples) : CostSamples[s] = value]

\* the position in the caller's list of the k-th record of the j-th call
callerPosition(j, k) ==
    IF svcModule = "part_000" THEN (j - 1) * PageSize + k ELSE k

\* C21: createRecords coerces the numeric fields ('Full Cost', 'Paid',
\* 'Balance': '' becomes 0, any other value is parsed as a number) exactly when
\* the logical name resolves to the main table, and then sends every other
\* field unchanged; for every other table, and for every update, the records
\* sent are the caller's records.
C21_CoercionOnMainTableOnly ==
    \A j \in 1..Len(apiCalls) : \A k \in 1..Len(apiCalls[j].records) :
        LET sent == apiCalls[j].records[k]
            given == recordsIn[callerPosition(j, k)]
        IN  IF apiCalls[j].op = "create" /\ apiCalls[j].table = mainTableOf(svcModule)
            THEN /\ DOMAIN sent = {"fields"}
                 /\ DOMAIN sent.fields = DOMAIN given.fields
                 /\ \A f \in DOMAIN given.fields :
                      sent.fields[f] = IF f \in {"Full Cost", "Paid", "Balance"}
                                       THEN costSentFor(given.fields[f])
                                       ELSE given.fields[f]
            ELSE sent = given

\* a create on the main table whose second page carried a 0 for an empty
\* string, a 12 for '12', a not-a-number for 'a', -3 for '-3', 1.5 for '1.5'
\* and 1000 for '1e3', the names as given
C21_Witness ==
    /\ bulkOp = "create"
    /\ Len(apiCalls) >= 2
    /\ Len(recordsIn) >= 15
    /\ apiCalls[2].table = MAIN_TABLE_NAME
    /\ Len(recordsIn) >= 20
    /\ recordsIn[20].fields["Full Cost"] = Str(<<>>)
    /\ apiCalls[2].records[10].fields["Full Cost"] = Num(0)
    /\ recordsIn[15].fields["Full Cost"] = Str(<<"-", "3">>)
    /\ apiCalls[2].records[5].fields["Full Cost"] = Num(-3)
    /\ recordsIn[16].fields["Full Cost"] = Str(<<"1", ".", "5">>)
    /\ apiCalls[2].records[6].fields["Full Cost"] = Dec(15, -1)
    /\ apiCalls[2].records[7].fields["Full Cost"] = Dec(1, 3)
    /\ recordsIn[11].fields["Full Cost"] = Str(<<"1", "2">>)
    /\ apiCalls[2].records[1].fields["Full Cost"] = Num(12)
    /\ apiCalls[2].records[3].fields["Full Cost"] = NaN
    /\ apiCalls[2].records[1].fields["Name"] = recordsIn[11].fields["Name"]

-----------------------------------------------------------------------------
(* Claims about records and tasks that do not exist. *)

\* C22, for a record id: a getRecord that finds no record of that id ends with
\* a not-found result, not with a thrown error.
C22_NotFoundIsAResult ==
    (singleOp = "get" /\ singleError = "NOT_FOUND") =>
        /\ singlePc # "thrown"
        /\ singleReturn = "null"

\* for a display id: a sendMessage whose lookup ends without a record (null or
\* a rejection) creates no message record, publishes nothing to the room and
\* answers its own connection with sendMessageError
C22_UnknownDisplayIdCreatesNothing ==
    [][\A h \in Handlers :
         (skHandler[h].pc = "lookup" /\ skHandler'[h].pc = "idle"
          /\ skProcess' = "running") =>
             /\ skCreated' = skCreated
             /\ skBroadcast' = skBroadcast
             /\ skFailure' = [event |-> "sendMessageError",
                              origin |-> skHandler[h].conn,
                              targets |-> {skHandler[h].conn}]]_vars

-----------------------------------------------------------------------------
(* Claims about the order of create and publish in the message handlers. *)

receiveEventOf(event) ==
    IF event = "sendMessage" THEN "receiveMessage" ELSE "receiveProjectMessage"

\* C27: sendMessage and sendProjectMessage publish their receive event to the
\* room only in the step in which the store has created the message record,
\* and the event carries that record (the store's id included); a handler
\* whose create fails publishes no receive event.
C27_ReceiveAfterCreate ==
    [][/\ skBroadcast' # skBroadcast =>
            \E h \in Handlers :
                /\ skHandler[h].pc = "creating"
                /\ skHandler'[h].pc = "idle"
                /\ skCreated'.id = skCreated.id + 1
                /\ skCreated'.link # UndefinedId
                /\ skBroadcast'.payload = skCreated'
                /\ skBroadcast'.event = receiveEventOf(skHandler[h].event)
                /\ skBroadcast'.targets = {d \in Conns : skHandler[h].room \in skRooms[d]}
       /\ skCreated' # skCreated => skBroadcast'.payload = skCreated'
       /\ \A h \in Handlers :
            (skHandler[h].pc = "creating" /\ skHandler'[h].pc = "idle"
             /\ skCreated' = skCreated /\ skProcess' = "running") =>
                /\ skBroadcast' = skBroadcast
                /\ skFailure' = [event |-> failureEventOf(skHandler[h].event),
                                 origin |-> skHandler[h].conn,
                                 targets |-> {skHandler[h].conn}]]_vars

\* a message sent under a display id reached both members of the room with the
\* record the store created for the task found, the second record it created,
\* after a project message had failed at its create
C27_Witness ==
    /\ skBroadcast.event = "receiveMessage"
    /\ skBroadcast.targets = Conns
    /\ skBroadcast.payload.id = 2
    /\ skBroadcast.payload.link = rec1Id
    /\ skBroadcast.payload.table = "tblmByy6LcRAYyf0y"
    /\ skCreated = skBroadcast.payload
    /\ skFailure.event = "sendProjectMessageError"

----------------------------------------------------------------------------
(* Further claims about the board transform (checked under SpecBoard). *)

\* C23: the sort of each task list is stable: two tasks whose source orders
\* are equal (a missing order counting as 0) stand in the list as their
\* records stood in the input.
C23_StableSort ==
    boardPc = "done" =>
        \A list \in taskLists(board) :
            \A p, q \in 1..Len(list) :
                (p < q /\ sourceOrder(list[p]) = sourceOrder(list[q])) =>
                    list[p]["Name"] < list[q]["Name"]

\* the input is a task of order 2, a task of order 0 and a task without order:
\* the first went last, the other two kept their places
C23_Witness ==
    /\ boardPc = "done"
    /\ Len(board.ungrouped) = 3
    /\ board.ungrouped[1]["Name"] = 2
    /\ board.ungrouped[2]["Name"] = 3
    /\ board.ungrouped[3]["Name"] = 1
    /\ "order" \in DOMAIN apiResponse[2].fields
    /\ apiResponse[2].fields["order"] = 0
    /\ "order" \notin DOMAIN apiResponse[3].fields

\* where the board holds the input record k: <<0, p>> for position p of
\* ungrouped, <<i, p>> for position p of the i-th group's tasks
placesOf(k) ==
    {<<0, p>> : p \in {q \in 1..Len(board.ungrouped) : board.ungrouped[q]["Name"] = k}}
    \cup UNION {{<<i, p>> : p \in {q \in 1..Len(board.groups[i].tasks) :
                                      board.groups[i].tasks[q]["Name"] = k}}
                : i \in 1..Len(board.groups)}

\* C24: the transform partitions its input: every input record is in the board
\* exactly once, in the group keyed by the first entry of task_groups when that
\* field is a non-empty list and in ungrouped otherwise; there is one group per
\* key, and no group has an empty task list.
C24_Partition ==
    boardPc = "done" =>
        /\ \A k \in 1..Len(apiResponse) :
              /\ Cardinality(placesOf(k)) = 1
              /\ \A place \in placesOf(k) :
                    IF noGroupLink(apiResponse[k])
                    THEN place[1] = 0
                    ELSE /\ place[1] > 0
                         /\ board.groups[place[1]].task_groups
                               = apiResponse[k].fields["task_groups"][1]
        /\ Len(board.ungrouped)
              + Cardinality(UNION {{<<i, p>> : p \in 1..Len(board.groups[i].tasks)}
                                   : i \in 1..Len(board.groups)})
              = Len(apiResponse)
        /\ \A i, j \in 1..Len(board.groups) :
              board.groups[i].task_groups = board.groups[j].task_groups => i = j
        /\ \A i \in 1..Len(board.groups) : board.groups[i].tasks # <<>>

\* a record linked to two groups went to the first of them, together with
\* another record of that group; a record with an empty link list went to
\* ungrouped
C24_Witness ==
    /\ boardPc = "done"
    /\ Len(apiResponse) = 3
    /\ Len(board.groups) = 1
    /\ board.groups[1].task_groups = "grpB"
    /\ Len(board.groups[1].tasks) = 2
    /\ Len(board.ungrouped) = 1
    /\ \E k \in 1..Len(apiResponse) :
          /\ ~noGroupLink(apiResponse[k])
          /\ Len(apiResponse[k].fields["task_groups"]) = 2
    /\ \E k \in 1..Len(apiResponse) :
          /\ "task_groups" \in DOMAIN apiResponse[k].fields
          /\ apiResponse[k].fields["task_groups"] = <<>>

\* the name and the order a record gives to the group it opens
nameGivenBy(record) ==
    IF "group_name" \in DOMAIN record.fields
    THEN (IF record.fields["group_name"] \in {<<>>, <<"">>}
          THEN "Unnamed Group" ELSE record.fields["group_name"][1])
    ELSE "Unnamed Group"

orderGivenBy(record) ==
    IF "group_order" \in DOMAIN record.fields /\ record.fields["group_order"] # <<>>
    THEN record.fields["group_order"][1]
    ELSE 0

\* C25: a group's id is the linked group id; its name is the name carried by
\* the first input record linked to it ("Unnamed Group" when that record has
\* none) and its order the order carried by that record (0 when it has none);
\* the records that follow change neither.
C25_GroupFromFirstRecord ==
    boardPc = "done" =>
        \A i \in 1..Len(board.groups) :
            /\ \E k \in 1..Len(apiResponse) :
                  /\ ~noGroupLink(apiResponse[k])
                  /\ apiResponse[k].fields["task_groups"][1] = board.groups[i].task_groups
            /\ board.groups[i].group_name
                  = nameGivenBy(apiResponse[firstSeen(board.groups[i].task_groups)])
            /\ board.groups[i].group_order
                  = orderGivenBy(apiResponse[firstSeen(board.groups[i].task_groups)])

\* group A met first under the name Alpha and the order 5, then under another
\* name and order; group B met first through a record without name and order
C25_Witness ==
    /\ boardPc = "done"
    /\ Len(board.groups) = 2
    /\ board.groups[1].task_groups = "grpB"
    /\ board.groups[1].group_name = "Unnamed Group"
    /\ board.groups[1].group_order = 0
    /\ board.groups[2].task_groups = "grpA"
    /\ board.groups[2].group_name = "Alpha"
    /\ board.groups[2].group_order = 5
    /\ Len(board.groups[2].tasks) = 2
    /\ \E k \in 1..Len(apiResponse) :
          /\ "group_name" \in DOMAIN apiResponse[k].fields
          /\ apiResponse[k].fields["group_name"] = <<"Renamed">>

----------------------------------------------------------------------------
(* Further claims about the counter (checked under SpecCounter). *)

\* the counter before any call, an absent field counting as 0
initialCounter ==
    IF CounterField \in DOMAIN counterFields0 THEN counterFields0[CounterField] ELSE 0

\* the calls so far ran one after another and none failed: no call has thrown,
\* every call that returned read the counter after the write-back of the call
\* before it, and the one call in flight, if any, read it after the last
\* write-back
serialCalls ==
    /\ \A c \in Calls : callPc[c] # "thrown"
    /\ \A p \in 1..Len(counterLog) : callSeen[counterLog[p]] = p - 1
    /\ \A c, d \in Calls : (callPc[c] = "write" /\ callPc[d] = "write") => c = d
    /\ \A c \in Calls : callPc[c] = "write" => callSeen[c] = Len(counterLog)

\* C30: when the getNextAttachmentId calls run one after another and none
\* fails, the k-th call returns the initial counter (0 when the field is
\* absent) plus k, the ids returned are distinct and the stored counter is the
\* id returned last; a call whose write-back fails throws and leaves the
\* stored counter as it was.
C30_SerialCallsCount ==
    /\ [](serialCalls =>
            /\ \A k \in 1..Len(counterLog) :
                  /\ callPc[counterLog[k]] = "returned"
                  /\ callReturn[counterLog[k]] = initialCounter + k
            /\ \A j, k \in 1..Len(counterLog) :
                  callReturn[counterLog[j]] = callReturn[counterLog[k]] => j = k
            /\ Len(counterLog) > 0 =>
                  counterFields[CounterField] = callReturn[counterLog[Len(counterLog)]])
    /\ [][\A c \in Calls :
            (callPc[c] = "write" /\ callPc'[c] \notin {"write", "returned"}) =>
                /\ callPc'[c] = "thrown"
                /\ counterFields' = counterFields
                /\ callReturn'[c] = callReturn[c]]_vars

\* three calls ran one after another on a record without counter field and
\* returned 1, 2 and 3
C30_Witness ==
    /\ serialCalls
    /\ CounterField \notin DOMAIN counterFields0
    /\ Len(counterLog) = 3
    /\ callReturn[counterLog[1]] = 1
    /\ callReturn[counterLog[2]] = 2
    /\ callReturn[counterLog[3]] = 3
    /\ counterFields[CounterField] = 3

----------------------------------------------------------------------------
(* Further claims about the bulk writes (checked under SpecBulk). *)

\* the j-th page of the list an invocation sends
pageOf(list, j) ==
    [k \in 1..(Min(j * PageSize, Len(list)) - (j - 1) * PageSize) |->
        list[(j - 1) * PageSize + k]]

\* C26: the pages of one createRecords / updateMultipleRecords invocation go
\* out one at a time and in input order: at most one page call is in flight;
\* the page in flight is the one after the pages that have returned, all of
\* them with success; the j-th call settled carried the j-th page; and after a
\* failed page no further page is sent.
C26_PagesOneAtATime ==
    svcModule = "part_000" =>
        /\ Len(inFlight) <= 1
        /\ inFlight # <<>> =>
              /\ bulkPc = "loop"
              /\ inFlight[1] = Len(apiCalls) * PageSize
              /\ inFlight[1] < Len(processedRecords)
              /\ \A j \in 1..Len(apiCalls) : apiCalls[j].ok
        /\ \A j \in 1..Len(apiCalls) :
              /\ apiCalls[j].records = pageOf(processedRecords, j)
              /\ ~apiCalls[j].ok => (j = Len(apiCalls) /\ inFlight = <<>> /\ bulkPc = "thrown")

\* an update of 21 records: the first two pages have returned with success and
\* the third, of one record, is in flight
C26_Witness ==
    /\ svcModule = "part_000"
    /\ bulkOp = "update"
    /\ Len(recordsIn) = 21
    /\ inFlight = <<20>>
    /\ Len(apiCalls) = 2
    /\ apiCalls[1].ok
    /\ apiCalls[2].ok
    /\ Len(apiCalls[2].records) = 10
    /\ apiCalls[2].records[1].id = recordsIn[11].id

----------------------------------------------------------------------------
(* Further claims about content held as an attachment (checked under        *)
(* SpecContent).                                                            *)

\* C29: the hybrid route answers from its plain-field fallback only when the
\* field holds no attachment reference: for a field that holds a non-empty
\* list of attachment references the answer is never of source 'fallback' and
\* its content is never that list.
C29_NoFallbackOnAttachment ==
    \A r \in CtRequests :
        (/\ ctPc[r] = "done" /\ ctRoute[r] = "hybrid" /\ ctRead[r] # NotRead
         /\ ctRead[r].kind = "list" /\ ctRead[r].items # <<>> /\ ctStatus[r] = 200) =>
            /\ ctBody[r].source # "fallback"
            /\ ctBody[r].content # ctRead[r]

----------------------------------------------------------------------------
(* Claims about the order of the object write and the record write. *)

\* the upload and replace routes taken alone, with their clock and write
\* log: the record is read and its field is written only after the
\* request's object is in the bucket; a request whose object write fails is
\* answered 500 without a read or an update of the record
attachFieldAfterObject ==
    /\ [](/\ \A k \in 1..Len(writeLog) : reqBlob[writeLog[k]] \in bucketObjects
          /\ \A r \in Requests :
                reqPc[r] \in {"read", "update"} => reqBlob[r] \in bucketObjects)
    /\ [][\A r \in Requests :
            (reqPc[r] = "storing" /\ reqPc'[r] = "done") =>
                /\ reqStatus'[r] = 500
                /\ bucketObjects' = bucketObjects
                /\ recFields' = recFields
                /\ writeLog' = writeLog
                /\ reqExisting' = reqExisting
                /\ reqSeen' = reqSeen]_vars

\* the replace of request 1 failed at its object write and left the record
\* alone; the upload of request 2 stored its object and then wrote the field
attachFieldAfterObjectReached ==
    /\ reqPc[1] = "done"
    /\ reqMode[1] = "replace"
    /\ reqStatus[1] = 500
    /\ reqBlob[1] \notin bucketObjects
    /\ reqPc[2] = "done"
    /\ reqMode[2] = "append"
    /\ reqStatus[2] = 200
    /\ reqBlob[2] \in bucketObjects
    /\ writeLog = <<2>>
    /\ recFields[AttachmentField] = <<PriorAttachment, newAttachment(2)>>

\* the routes that write an object and then the record field
StoringRoutes == {"upload", "replace", "save", "patch"}

\* the object write of request r has landed in this run: the blob of an
\* upload or a replace, the named content file of a save
objectLanded(r) ==
    \E e \in ctWritten :
        /\ e.name \in DOMAIN ctBucket
        /\ IF ctRoute[r] \in {"upload", "replace"}
           THEN e.name = ctFile[r].blob
           ELSE e.name = fileNameOf(ctTriple[r]) /\ e.triple = ctTriple[r]

\* C28: in the upload route, the replace route and the save of named content
\* (POST /api/save-content-attachment, and the content branch of
\* PATCH /api/info-pages/:pageId) the record is read and its field is written
\* only after the request's object write has completed: a request that reads
\* the record or updates the field has its object in the bucket; a request
\* whose object write fails is answered 500 in that step, without a read or an
\* update of the record, with the record's fields and the bucket as they were;
\* and the fields change only in the step in which the update of such a request
\* resolves.
C28_FieldAfterObject ==
    /\ [](\A r \in CtRequests :
            /\ (ctRoute[r] \in {"upload", "replace"} /\ ctPc[r] \in {"reading", "updating"})
                  => objectLanded(r)
            /\ (ctRoute[r] \in {"save", "patch"} /\ ctPc[r] = "updating"
                    /\ ctTriple[r] \in DOMAIN ctPayload[r])
                  => objectLanded(r))
    /\ [][/\ \A r \in CtRequests :
              /\ (ctPc[r] \in {"saving", "storing"} /\ ctPc'[r] = "done") =>
                    /\ ctRoute[r] \in StoringRoutes
                    /\ ctStatus'[r] = 500
                    /\ ctFields' = ctFields
                    /\ ctBucket' = ctBucket
                    /\ ctWritten' = ctWritten
                    /\ ctRead'[r] = NotRead
                    /\ ctPayload'[r] = ctPayload[r]
              /\ (ctPc[r] \in {"saving", "storing"} /\ ctPc'[r] \in {"reading", "updating"}) =>
                    /\ ctCount' = ctCount + 1
                    /\ ctFields' = ctFields
         /\ ctFields' # ctFields =>
              \E r \in CtRequests :
                  /\ ctPc[r] = "updating"
                  /\ ctPc'[r] = "done"
                  /\ ctPayload[r] # <<>>
                  /\ ctTriple[r] \in DOMAIN ctPayload[r] => objectLanded(r)]_vars

\* a save of named content failed at file.save: 500, no read, no update, the
\* named object is the one the bucket held before; next to it a replace stored
\* its blob and then set the field to that one attachment
C28_Witness ==
    \E r1, r2 \in CtRequests :
        /\ ctPc[r1] = "done"
        /\ ctRoute[r1] = "save"
        /\ ctStatus[r1] = 500
        /\ ctBody[r1] = errorBody("save", "boom")
        /\ fileNameOf(ctTriple[r1]) = PriorContentName
        /\ ctBucket[PriorContentName] = <<"P">>
        /\ ctPc[r2] = "done"
        /\ ctRoute[r2] = "replace"
        /\ ctStatus[r2] = 200
        /\ ctFile[r2].blob \in DOMAIN ctBucket
        /\ ctWritten = {[name |-> ctFile[r2].blob, triple |-> <<>>]}
        /\ fieldValue(ctFields, ctTriple[r2]) =
              ListValue(<<[url |-> publicUrl(ctFile[r2].blob),
                           filename |-> ctFile[r2].originalname]>>)

====
